---- MODULE Spec2Model ----
(***************************************************************************)
(* A model of the BS boot chain: the sentinel-terminated disk program      *)
(* loader, the GDT and page-table entry builders, the real-mode to         *)
(* long-mode transition and the ELF file-header validation.                *)
(*                                                                         *)
(* The repository holds several iterations of the same pipeline.  Each is  *)
(* modelled under its own name and selected by an "impl" variable:         *)
(*   src/boot/bootstrapper/src/disk.rs     load_program        "disk_rs"   *)
(*   src/boot/bootstrapper/src/main.rs     load_program        "bootstrapper" *)
(*   src/bootstrapper/src/main.rs          main                "legacy"    *)
(*                                                                         *)
(* Machine words wider than TLC's integers are kept either as sets of bit  *)
(* positions (registers, page-table entries) or as little-endian 16-bit    *)
(* limbs (u32, u64 values that are added).                                 *)
(***************************************************************************)
EXTENDS Integers, Naturals, Sequences, FiniteSets, TLC

VARIABLES
    \* ---- build profile ----
    overflow_checks,  \* arithmetic overflow panics (TRUE, debug) or wraps (FALSE)
    debug_assertions, \* #[cfg(debug_assertions)] code is compiled in
    pointer_width     \* bits of usize on the target the crate is built for

buildVars == <<overflow_checks, debug_assertions, pointer_width>>

VARIABLES
    \* ---- disk program loader ----
    lp_impl,          \* which load_program is running
    start_sector,     \* the start sector handed to the loader
    prog_len,         \* disk image: the program's N-th sector ends with the sentinel
    lp_pc,            \* position of the loader
    sector,           \* dap.lba / sector: next unit to read
    address,          \* dap.offset / address: 16-bit destination offset
    sig,              \* TRUE when the signature last loaded was 0xDEADBEEF
    mem,              \* the addresses a at which memory holds the 4 sentinel bytes
    reads,            \* history: the BIOS reads issued, in order
    inspected,        \* history: the addresses the signature was loaded from
    lp_ret            \* the value returned / handed to the next stage

lpVars == <<lp_impl, start_sector, prog_len, lp_pc, sector,
            address, sig, mem, reads, inspected, lp_ret>>

VARIABLES
    \* ---- GDT segment descriptor builder ----
    gdt_in,           \* the SegmentDescriptorBuilder being built
    gdt_out,          \* what build() produced
    gdt_pc            \* "input" before build() ran, "built" after

gdtVars == <<gdt_in, gdt_out, gdt_pc>>

VARIABLES
    \* ---- page-table entries ----
    pg_type,           \* the entry type (setters) or builder type in use
    pg_entry,         \* the 8-byte entry, as the set of its bits that are 1
    pg_last,          \* history: the last operation and its arguments
    pg_pc             \* "ready", or "panic" once an operation aborted

pgVars == <<pg_type, pg_entry, pg_last, pg_pc>>

VARIABLES
    \* ---- ELF file-header validation ----
    elf_impl,         \* "frieren" (FileHeader::try_from_raw) or "bootloader"
                      \* (parse_from_sector of the superseded bootloader)
    elf_header,       \* the FileHeader in memory
    elf_result,       \* what validation returned
    elf_range,        \* what section_table_range returned
    elf_pc            \* "input", "validated", "ranged"

elfVars == <<elf_impl, elf_header, elf_result, elf_range, elf_pc>>

VARIABLES
    \* ---- transition to long mode ----
    mt_impl,          \* "enable_64_bit_mode" (src/bootloader) or "main" (src/boot/bootloader)
    mt_pc,            \* the next instruction block of the sequence
    pml4_address,     \* the address of the page map level 4 handed to the sequence
    gdt_descriptor,   \* the GDT descriptor built by build_gdt: [offset, size]
    cr0, cr3, cr4,    \* control registers; cr0 and cr4 as sets of bits
    efer,             \* MSR 0xC0000080, as a set of bits
    gdtr,             \* [limit, base] as loaded by lgdt
    cs,               \* the code segment selector
    mt_steps          \* history: the steps performed, in order

mtVars == <<mt_impl, mt_pc, pml4_address, gdt_descriptor, cr0, cr3, cr4, efer,
            gdtr, cs, mt_steps>>

VARIABLES
    \* ---- Stage 1: the bootloader's main ----
    st_pc,            \* position in main
    gdt,              \* the table build_gdt wrote, as a sequence of entries
    page_maps,        \* the page maps build_page_tables wrote, by variable
    live              \* the variables whose storage is still theirs

stVars == <<st_pc, gdt, page_maps, live>>

VARIABLES
    \* ---- the chain of stages ----
    stage,            \* the stage whose code is executing
    ch_pc,            \* position in the chain: which function is running
    boot_disk,        \* the disk id the BIOS left in DL on entry
    handoff,          \* the last transfer to a next stage: target and arguments
    entered,          \* history: the stages entered, in order
    regs              \* direction and interrupt flags, segment registers, SP, BP

chVars == <<stage, ch_pc, boot_disk, handoff, entered, regs>>

VARIABLES
    \* ---- the console Printer ----
    pr_pc,            \* "idle" or "run"
    pr_idx,           \* Printer.idx: the cell the next byte goes to
    pr_buffer,        \* the screen's cells of the VGA text buffer at 0xB8000, in order
    pr_last,          \* history: the last write_byte call
    pr_calls          \* history: the number of write_byte calls made

prVars == <<pr_pc, pr_idx, pr_buffer, pr_last, pr_calls>>

VARIABLES
    \* ---- PCI configuration addresses ----
    pci_pc,           \* "idle", "new", "built", "read" or "again"
    pci_in,           \* the bus, device and function given to PciDevice::new
    pci_address,      \* PciDeviceAddress.0 of the device, as a set of bit positions
    pci_out,          \* what bus(), device() and function() returned
    pci_again         \* PciDeviceAddress.0 of the device made from pci_out

pciVars == <<pci_pc, pci_in, pci_address, pci_out, pci_again>>

vars == <<buildVars, lpVars, gdtVars, pgVars, elfVars, mtVars, stVars, chVars,
          prVars, pciVars>>

-----------------------------------------------------------------------------
(* Bounds of the model.                                                     *)

\* Longest program, in sectors, placed on the modelled disk.
MaxSectors == 66

\* Longest Stage 1, in sectors, on the disk the whole chain is booted from.
ChainSectors == 2

-----------------------------------------------------------------------------
(* Fixed-width arithmetic.                                                  *)

\* The number of values of a u16 (address, dap.offset) and of a u8 (the legacy
\* loader's sector counter).
U16 == 2^16
U8 == 2^8

\* The size of one disk sector in bytes.
SectorSize == 512

\* Offset of the 4 signature bytes inside a sector (bytes 508..511).
SigOffset == 508

-----------------------------------------------------------------------------
(* The disk and the memory the loader reads into.                           *)

\* Where each loader starts writing: dap.offset / address at entry.
LoadBase(impl) == IF impl = "legacy" THEN 16384 ELSE 32256

\* The first unit each loader reads.  The legacy loader reads CHS sector 2
\* (sector: u8 = 2); the two LBA loaders take the start as an argument.
StartSectors(impl) == IF impl = "legacy" THEN {2} ELSE {1, 5, 65535}

\* The disk image: stages are laid out one after another and the build tool
\* ends each with the sentinel.  Counting from start, the program's last
\* sector is number len, and the stage after it is two sectors long.
DiskEndsWithSentinel(start, len, unit) ==
    \/ unit - start + 1 = len
    \/ unit - start + 1 = len + 2

\* TRUE when the 4 bytes at a..a+3 overlap the 512 bytes written at dest.
Overwritten(a, dest) == (a - dest + 3) % U16 <= SectorSize + 2

\* Memory after one sector was written at dest: every sentinel the write
\* overlapped is gone, and the sector's own signature sits at dest + 508.
StoreSector(m, dest, ends) ==
    {a \in m : ~Overwritten(a, dest)}
        \cup (IF ends THEN {(dest + SigOffset) % U16} ELSE {})

\* The BIOS service int 0x13: on success the sector lands at dest, on an
\* error memory is left as it was.  The loaders do not look at the carry flag.
Int13(m, dest, unit, ok) ==
    IF ok THEN StoreSector(m, dest, DiskEndsWithSentinel(start_sector, prog_len, unit))
    ELSE m

\* The disk address packet handed to the BIOS.
DiskAddressPacket(lba, offset) ==
    [size |-> 16, reserved |-> 0, sectors |-> 1, segment |-> 0,
     offset |-> offset, lba |-> lba]

\* History only: TRUE when memory holds the sentinel in bytes 508..511 of
\* the sector most recently read, at the destination the BIOS was given.
LastSectorShowsSentinel(m, rds) ==
    (rds[Len(rds)].dap.offset + SigOffset) % U16 \in m

-----------------------------------------------------------------------------
(* load_program, src/boot/bootstrapper/src/disk.rs                          *)

\* The address the signature is loaded from: dap.offset + 508.
disk_rs_sig_address(offset) == (offset + SigOffset) % U16

\* What load_program returns once the sentinel was found: dap.lba.
disk_rs_return(lba) == lba

\* asm!("... int 0x13 ..."), then load the signature of the sector just read.
disk_rs_read ==
    /\ lp_impl = "disk_rs"
    /\ lp_pc = "read"
    /\ Len(reads) < MaxSectors + 2
    /\ \E ok \in BOOLEAN :
         LET m == Int13(mem, address, sector, ok)
             a == disk_rs_sig_address(address)
         IN  /\ mem' = m
             /\ reads' = Append(reads, [dap |-> DiskAddressPacket(sector, address),
                                        drive |-> "arg"])
             /\ inspected' = Append(inspected,
                    [at |-> a, sig |-> a \in m,
                     shown |-> LastSectorShowsSentinel(m, reads')])
             /\ sig' = (a \in m)
    /\ lp_pc' = "check"
    /\ UNCHANGED <<lp_impl, start_sector, prog_len, sector,
                   address, lp_ret>>

\* if signature == 0xDEADBEEF { break } ; dap.offset += 512; dap.lba += 1
disk_rs_check ==
    /\ lp_impl = "disk_rs"
    /\ lp_pc = "check"
    /\ IF sig
         THEN /\ lp_pc' = "done"
              /\ lp_ret' = disk_rs_return(sector)
              /\ UNCHANGED <<sector, address>>
         ELSE IF overflow_checks /\ address + SectorSize >= U16
           THEN /\ lp_pc' = "panic"
                /\ UNCHANGED <<sector, address, lp_ret>>
           ELSE /\ address' = (address + SectorSize) % U16
                /\ sector' = sector + 1
                /\ lp_pc' = "read"
                /\ UNCHANGED lp_ret
    /\ UNCHANGED <<lp_impl, start_sector, prog_len, sig, mem,
                   reads, inspected>>

-----------------------------------------------------------------------------
(* load_program, src/boot/bootstrapper/src/main.rs, with                    *)
(* read_sectors, src/lib/common/src/disks.rs                                *)

\* A loader that looks for the signature at address + 508 after read_sectors
\* has already advanced address: it inspects the sector not yet read.
bootstrapper_sig_address_next(addr) == (addr + SigOffset) % U16

\* The address the signature is loaded from: address - 4, after read_sectors
\* has advanced address past the sector.
bootstrapper_sig_address(addr) == (addr - 4) % U16

\* What load_program returns: sector as u16.
bootstrapper_return(lba) == lba % U16

\* common::disks::read_sectors(&mut sector, 1, &mut address, 0, None)
read_sectors ==
    /\ lp_impl = "bootstrapper"
    /\ lp_pc = "read"
    /\ Len(reads) < MaxSectors + 2
    /\ \E ok \in BOOLEAN : mem' = Int13(mem, address, sector, ok)
    /\ reads' = Append(reads, [dap |-> DiskAddressPacket(sector, address),
                               drive |-> 128])
    /\ sector' = sector + 1
    /\ IF overflow_checks /\ address + SectorSize >= U16
         THEN /\ lp_pc' = "panic"
              /\ UNCHANGED address
         ELSE /\ address' = (address + SectorSize) % U16
              /\ lp_pc' = "check"
    /\ UNCHANGED <<lp_impl, start_sector, prog_len, sig,
                   inspected, lp_ret>>

\* sig = u32::from_ne_bytes([*(address - 4), ..., *(address - 1)]), and the
\* loop condition  while sig != 0xdeadbeef
bootstrapper_check ==
    /\ lp_impl = "bootstrapper"
    /\ lp_pc = "check"
    /\ LET a == bootstrapper_sig_address(address)
       IN  /\ inspected' = Append(inspected,
                  [at |-> a, sig |-> a \in mem,
                   shown |-> LastSectorShowsSentinel(mem, reads)])
           /\ sig' = (a \in mem)
           /\ IF a \in mem
                THEN /\ lp_pc' = "done"
                     /\ lp_ret' = bootstrapper_return(sector)
                ELSE /\ lp_pc' = "read"
                     /\ UNCHANGED lp_ret
    /\ UNCHANGED <<lp_impl, start_sector, prog_len, sector,
                   address, mem, reads>>

-----------------------------------------------------------------------------
(* main, src/bootstrapper/src/main.rs (the superseded CHS loader)           *)

\* The address the signature is loaded from: address + 508.
legacy_sig_address(addr) == (addr + SigOffset) % U16

\* asm!("... mov ah, 2 ; int 0x13 ..."), then load the sector's signature.
legacy_read ==
    /\ lp_impl = "legacy"
    /\ lp_pc = "read"
    /\ Len(reads) < MaxSectors + 2
    /\ \E ok \in BOOLEAN :
         LET m == Int13(mem, address, sector, ok)
             a == legacy_sig_address(address)
         IN  /\ mem' = m
             /\ reads' = Append(reads, [dap |-> DiskAddressPacket(sector, address),
                                        drive |-> "arg"])
             /\ inspected' = Append(inspected,
                    [at |-> a, sig |-> a \in m,
                     shown |-> LastSectorShowsSentinel(m, reads')])
             /\ sig' = (a \in m)
    /\ lp_pc' = "check"
    /\ UNCHANGED <<lp_impl, start_sector, prog_len, sector,
                   address, lp_ret>>

\* address += 512; sector += 1; then the loop condition, and after the loop
\* main(sector).
legacy_check ==
    /\ lp_impl = "legacy"
    /\ lp_pc = "check"
    /\ IF overflow_checks /\ (address + SectorSize >= U16 \/ sector + 1 >= U8)
         THEN /\ lp_pc' = "panic"
              /\ UNCHANGED <<sector, address, lp_ret>>
         ELSE /\ address' = (address + SectorSize) % U16
              /\ sector' = (sector + 1) % U8
              /\ IF sig
                   THEN /\ lp_pc' = "done"
                        /\ lp_ret' = (sector + 1) % U8
                   ELSE /\ lp_pc' = "read"
                        /\ UNCHANGED lp_ret
    /\ UNCHANGED <<lp_impl, start_sector, prog_len, sig, mem,
                   reads, inspected>>

-----------------------------------------------------------------------------
(* The loader's initial states.                                             *)

\* Memory before the loader runs is whatever was there: nothing that looks
\* like a sentinel, or a stale one where the second sector will be checked.
StaleMemory(impl) == {{}, {(LoadBase(impl) + SectorSize + SigOffset) % U16}}

\* The loader before it is entered; the other components' specifications
\* leave it there.
LoaderIdle ==
    /\ lp_impl = "bootstrapper"
    /\ start_sector = 1
    /\ prog_len = 1
    /\ lp_pc = "idle"
    /\ sector = 1
    /\ address = LoadBase("bootstrapper")
    /\ sig = FALSE
    /\ mem = {}
    /\ reads = <<>>
    /\ inspected = <<>>
    /\ lp_ret = 0

LoaderStart ==
    /\ lp_impl \in {"disk_rs", "bootstrapper", "legacy"}
    /\ start_sector \in StartSectors(lp_impl)
    /\ prog_len \in 1..MaxSectors
    /\ lp_pc = "read"
    /\ sector = start_sector
    /\ address = LoadBase(lp_impl)
    /\ sig = FALSE
    /\ mem \in StaleMemory(lp_impl)
    /\ reads = <<>>
    /\ inspected = <<>>
    /\ lp_ret = 0


-----------------------------------------------------------------------------
(* Bytes and 32-bit words.                                                  *)

\* The bits set in a byte, and the byte with a given set of bits.
ByteBits(n) == {i \in 0..7 : (n \div (2^i)) % 2 = 1}
BitValue(S, i) == IF i \in S THEN 2^i ELSE 0
ByteOf(S) ==
    BitValue(S, 0) + BitValue(S, 1) + BitValue(S, 2) + BitValue(S, 3)
        + BitValue(S, 4) + BitValue(S, 5) + BitValue(S, 6) + BitValue(S, 7)

\* a | b on bytes.
OrByte(a, b) == ByteOf(ByteBits(a) \cup ByteBits(b))

\* A u32 is a pair <<low 16 bits, high 16 bits>>.  u32::to_ne_bytes on the
\* little-endian x86 gives the four bytes, least significant first.
to_ne_bytes(w) == <<w[1] % 256, w[1] \div 256, w[2] % 256, w[2] \div 256>>

\* The u32 holding a small natural number.
U32Of(n) == <<n % U16, (n \div U16) % U16>>

-----------------------------------------------------------------------------
(* The GDT builders, src/lib/common/src/gdt.rs (src/bootloader/src/gdt.rs   *)
(* holds the same code).                                                    *)

\* pub const U20_MAX: u32 = 0b0000_0000_0000_1111_1111_1111_1111_1111
U20_MAX == 1048575

\* A builder's outcome: the value it returns, or the panic that aborts it.
Built(v) == [panic |-> "", val |-> v]
Panic(msg) == [panic |-> msg, val |-> <<>>]
Aborted(r) == r.panic # ""

\* SegmentAccessBuilder::build with the masks of privilege 1 and 2 exchanged.
SegmentAccessBuilder_build_swapped(a) ==
    LET r1 == IF a.present THEN OrByte(0, 128) ELSE 0
        r2 == CASE a.privilege = 0 -> r1
                [] a.privilege = 1 -> OrByte(r1, 64)
                [] a.privilege = 2 -> OrByte(r1, 32)
                [] a.privilege = 3 -> OrByte(r1, 96)
                [] OTHER -> -1
        r3 == IF a.non_system THEN OrByte(r2, 16) ELSE r2
        r4 == IF a.executable THEN OrByte(r3, 8) ELSE r3
        r5 == IF a.direction_conforming THEN OrByte(r4, 4) ELSE r4
        r6 == IF a.read_write THEN OrByte(r5, 2) ELSE r5
        r7 == IF a.accessed THEN OrByte(r6, 1) ELSE r6
    IN  IF r2 = -1
          THEN Panic("A memory segment's privilege can only be between 0 and 3")
          ELSE Built(r7)

\* SegmentAccessBuilder::build
SegmentAccessBuilder_build(a) ==
    LET r1 == IF a.present THEN OrByte(0, 128) ELSE 0
        r2 == CASE a.privilege = 0 -> r1
                [] a.privilege = 1 -> OrByte(r1, 32)
                [] a.privilege = 2 -> OrByte(r1, 64)
                [] a.privilege = 3 -> OrByte(r1, 96)
                [] OTHER -> -1
        r3 == IF a.non_system THEN OrByte(r2, 16) ELSE r2
        r4 == IF a.executable THEN OrByte(r3, 8) ELSE r3
        r5 == IF a.direction_conforming THEN OrByte(r4, 4) ELSE r4
        r6 == IF a.read_write THEN OrByte(r5, 2) ELSE r5
        r7 == IF a.accessed THEN OrByte(r6, 1) ELSE r6
    IN  IF r2 = -1
          THEN Panic("A memory segment's privilege can only be between 0 and 3")
          ELSE Built(r7)

\* SegmentFlagsBuilder::build with the check of `protected` left out.
SegmentFlagsBuilder_build_unchecked(f) ==
    LET r1 == IF f.paged_limit THEN OrByte(0, 128) ELSE 0
        r2 == IF f.protected THEN OrByte(r1, 64) ELSE r1
    IN  IF f.long THEN Built(OrByte(r2, 32)) ELSE Built(r2)

\* SegmentFlagsBuilder::build
SegmentFlagsBuilder_build(f) ==
    LET r1 == IF f.paged_limit THEN OrByte(0, 128) ELSE 0
        r2 == IF f.protected THEN OrByte(r1, 64) ELSE r1
    IN  IF f.long
          THEN IF f.protected
                 THEN Panic("protected flag must be false for 64-bit segments")
                 ELSE Built(OrByte(r2, 32))
          ELSE Built(r2)

\* SegmentDescriptorBuilder::build.  The array literal evaluates its elements
\* in order, so the flags are built (and may panic) before the access byte.
SegmentDescriptorBuilder_build(d) ==
    IF d.limit > U20_MAX
      THEN Panic("A memory segment's limit must fit in a u20")
      ELSE LET limit == to_ne_bytes(U32Of(d.limit \div 16))
               base == to_ne_bytes(d.base)
               flags == SegmentFlagsBuilder_build(d.flags)
               access == SegmentAccessBuilder_build(d.access)
           IN  IF Aborted(flags) THEN flags
               ELSE IF Aborted(access) THEN access
               ELSE Built(<<base[1],
                            OrByte(flags.val, limit[1]),
                            access.val,
                            base[2],
                            base[3],
                            base[4],
                            limit[2],
                            limit[3]>>)

\* The inputs the builder is run on.
GdtBases == {<<0, 0>>, <<22136, 4660>>, <<65535, 65535>>}
GdtLimits == {0, 1, 512, 4080, U20_MAX, U20_MAX + 1}
GdtFlags == [paged_limit : BOOLEAN, protected : BOOLEAN, long : BOOLEAN]
GdtAccess == [present : BOOLEAN, privilege : {0, 1, 2, 3, 4, 255},
              non_system : BOOLEAN, executable : BOOLEAN,
              direction_conforming : BOOLEAN, read_write : BOOLEAN,
              accessed : BOOLEAN]
GdtInputs == [base : GdtBases, limit : GdtLimits, flags : GdtFlags,
              access : GdtAccess]

\* let descriptor = SegmentDescriptorBuilder { .. }.build();
gdt_build ==
    /\ gdt_pc = "input"
    /\ gdt_out' = SegmentDescriptorBuilder_build(gdt_in)
    /\ gdt_pc' = "built"
    /\ UNCHANGED gdt_in

GdtIdle ==
    /\ gdt_in = [base |-> <<0, 0>>, limit |-> 0,
                 flags |-> [paged_limit |-> FALSE, protected |-> FALSE,
                            long |-> FALSE],
                 access |-> [present |-> FALSE, privilege |-> 0,
                             non_system |-> FALSE, executable |-> FALSE,
                             direction_conforming |-> FALSE,
                             read_write |-> FALSE, accessed |-> FALSE]]
    /\ gdt_out = Panic("not built")
    /\ gdt_pc = "idle"

GdtStart ==
    /\ gdt_in \in GdtInputs
    /\ gdt_out = Panic("not built")
    /\ gdt_pc = "input"

-----------------------------------------------------------------------------
(* 64-bit words as sets of bit positions: a | b is the union, a ^ b the     *)
(* symmetric difference, 1 << pos is {pos}.                                 *)

\* mov without the or: the register receives the mask alone.
BitMov(a, b) == b

BitOr(a, b) == a \cup b
BitXor(a, b) == (a \ b) \cup (b \ a)

\* (x as u64) << shift for a small number x, truncated to 64 bits.
ShiftedBits(x, shift) == {i + shift : i \in ByteBits(x)} \cap (0..63)

\* address % 4096 != 0
Misaligned(a) == a \cap (0..11) # {}

-----------------------------------------------------------------------------
(* Page-table entries with setters, src/lib/common/src/paging.rs.  The      *)
(* macro page_map_type! generates the same methods for PageMapLevel4Entry,  *)
(* PageDirectoryPointerTableEntry, PageDirectoryEntry and PageTableEntry.   *)

EntryTypes == {"PageMapLevel4Entry", "PageDirectoryPointerTableEntry",
               "PageDirectoryEntry", "PageTableEntry"}

\* macro bitbool!: if $name { $var |= 1 << $pos } else { $var ^= 1 << $pos }
bitbool(name, pos, var) ==
    IF name THEN BitOr(var, {pos}) ELSE BitXor(var, {pos})

\* macro inverse_bitbool!: if !$name { $var |= 1 << $pos } else { $var ^= 1 << $pos }
inverse_bitbool(name, pos, var) ==
    IF ~name THEN BitOr(var, {pos}) ELSE BitXor(var, {pos})

set_present(e, present) == bitbool(present, 0, e)
set_writable(e, writable) == bitbool(writable, 1, e)
set_user_mode(e, user_mode) == bitbool(user_mode, 2, e)
set_write_through_cache(e, write_through) == bitbool(write_through, 3, e)
set_caching(e, cache_enabled) == inverse_bitbool(cache_enabled, 4, e)
set_accessed(e, accessed) == bitbool(accessed, 5, e)
set_executable(e, executable) == inverse_bitbool(executable, 63, e)

\* set_address: panics on an address that is not 4 KiB aligned, else ORs it in.
set_address(e, a) ==
    IF Misaligned(a)
      THEN Panic("Page table addresses must be 4kb-aligned")
      ELSE Built(BitOr(e, a))

-----------------------------------------------------------------------------
(* Page-table entry builders, src/bootloader/src/paging.rs.                 *)

BuilderTypes == {"PageMapLevel4EntryBuilder",
                 "PageDirectoryPointerTableEntryBuilder",
                 "PageDirectoryEntryBuilder", "PageTableEntryBuilder"}

\* const U4_MAX: u8 = 0b0000_1111
U4_MAX == 15

\* protection_key: None
NoKey == -1

\* if self.<flag> { result |= 1 << pos }
OrIf(flag, pos, result) == IF flag THEN BitOr(result, {pos}) ELSE result

\* PageMapLevel4EntryBuilder::build
PageMapLevel4EntryBuilder_build(b, dbg) ==
    LET r == OrIf(b.execute_disable, 63,
             OrIf(b.accessed, 5,
             OrIf(b.cache_disabled, 4,
             OrIf(b.write_through, 3,
             OrIf(b.user_mode, 2,
             OrIf(b.writable, 1,
             OrIf(b.present, 0, {})))))))
    IN  IF dbg /\ Misaligned(b.address)
          THEN Panic("Page table addresses must be 4kb-aligned")
          ELSE Built(BitOr(r, b.address))

\* PageDirectoryPointerTableEntryBuilder::build, which is also
\* PageDirectoryEntryBuilder::build (a type alias).
PageDirectoryPointerTableEntryBuilder_build(b, dbg) ==
    LET r1 == OrIf(b.global, 8,
              OrIf(b.direct_map, 7,
              OrIf(b.dirty, 6,
              OrIf(b.accessed, 5,
              OrIf(b.cache_disabled, 4,
              OrIf(b.write_through, 3,
              OrIf(b.user_mode, 2,
              OrIf(b.writable, 1,
              OrIf(b.present, 0, {})))))))))
        r2 == OrIf(b.pat, 12, r1)
        r3 == IF b.protection_key # NoKey
                THEN BitOr(r2, ShiftedBits(b.protection_key, 62))
                ELSE r2
        r4 == OrIf(b.execute_disable, 63, r3)
    IN  IF dbg /\ b.pat /\ ~b.direct_map
          THEN Panic("Non-direct-mapping tables cannot set the PAT bit")
        ELSE IF dbg /\ b.protection_key # NoKey /\ b.protection_key > U4_MAX
          THEN Panic("Protection key is too large, it must fit in 4 bits")
        ELSE Built(BitOr(r4, b.address))

\* PageTableEntryBuilder::build.  The address field is never put in result.
PageTableEntryBuilder_build(b, dbg) ==
    LET r1 == OrIf(b.global, 8,
              OrIf(b.pat, 7,
              OrIf(b.dirty, 6,
              OrIf(b.accessed, 5,
              OrIf(b.cache_disabled, 4,
              OrIf(b.write_through, 3,
              OrIf(b.user_mode, 2,
              OrIf(b.writable, 1,
              OrIf(b.present, 0, {})))))))))
        r2 == IF b.protection_key # NoKey
                THEN BitOr(r1, ShiftedBits(b.protection_key, 59))
                ELSE r1
        r3 == OrIf(b.execute_disable, 63, r2)
    IN  IF dbg /\ b.protection_key # NoKey /\ b.protection_key > U4_MAX
          THEN Panic("Protection key is too large, it must fit in 4 bits")
          ELSE Built(r3)

BuilderBuild(type, b, dbg) ==
    CASE type = "PageMapLevel4EntryBuilder" ->
            PageMapLevel4EntryBuilder_build(b, dbg)
      [] type = "PageTableEntryBuilder" ->
            PageTableEntryBuilder_build(b, dbg)
      [] OTHER ->
            PageDirectoryPointerTableEntryBuilder_build(b, dbg)

\* The addresses entries are given: 0, 0x1000, 0x40000000 (aligned) and
\* 1, 0x800, 0x1004 (not aligned).
PgAddresses == {{}, {12}, {30}, {0}, {11}, {2, 12}}

\* The builder structs the build methods are run on.  PageMapLevel4EntryBuilder
\* has no dirty, direct_map, global, pat and protection_key fields, and
\* PageTableEntryBuilder no direct_map.
BuilderInputs(type) ==
    LET lower == type # "PageMapLevel4EntryBuilder"
        opt == IF lower THEN BOOLEAN ELSE {FALSE}
    IN  [present : BOOLEAN, writable : BOOLEAN, user_mode : {FALSE},
         write_through : {FALSE}, cache_disabled : BOOLEAN,
         accessed : {FALSE}, dirty : opt,
         direct_map : IF type = "PageTableEntryBuilder" THEN {FALSE} ELSE opt,
         global : {FALSE}, pat : opt, address : PgAddresses,
         protection_key : IF lower THEN {NoKey, 15, 16} ELSE {NoKey},
         execute_disable : BOOLEAN]

\* One call of a setter that takes a bool, on an entry of the common crate.
PgSetter(op, b, after) ==
    /\ pg_type \in EntryTypes
    /\ pg_pc = "ready"
    /\ pg_entry' = after
    /\ pg_last' = [op |-> op, flag |-> b, address |-> {}, before |-> pg_entry]
    /\ UNCHANGED <<pg_type, pg_pc>>

pg_set_present == \E b \in BOOLEAN :
    PgSetter("set_present", b, set_present(pg_entry, b))
pg_set_writable == \E b \in BOOLEAN :
    PgSetter("set_writable", b, set_writable(pg_entry, b))
pg_set_user_mode == \E b \in BOOLEAN :
    PgSetter("set_user_mode", b, set_user_mode(pg_entry, b))
pg_set_write_through_cache == \E b \in BOOLEAN :
    PgSetter("set_write_through_cache", b, set_write_through_cache(pg_entry, b))
pg_set_caching == \E b \in BOOLEAN :
    PgSetter("set_caching", b, set_caching(pg_entry, b))
pg_set_accessed == \E b \in BOOLEAN :
    PgSetter("set_accessed", b, set_accessed(pg_entry, b))
pg_set_executable == \E b \in BOOLEAN :
    PgSetter("set_executable", b, set_executable(pg_entry, b))

\* entry.set_address(a)
pg_set_address ==
    /\ pg_type \in EntryTypes
    /\ pg_pc = "ready"
    /\ \E a \in PgAddresses :
         LET r == set_address(pg_entry, a)
         IN  /\ pg_entry' = IF Aborted(r) THEN pg_entry ELSE r.val
             /\ pg_pc' = IF Aborted(r) THEN "panic" ELSE "ready"
             /\ pg_last' = [op |-> "set_address", flag |-> FALSE,
                            address |-> a, before |-> pg_entry]
    /\ UNCHANGED pg_type

\* *entry = <Builder> { .. }.build()
pg_build ==
    /\ pg_type \in BuilderTypes
    /\ pg_pc = "ready"
    /\ pg_last.op = "new"
    /\ \E b \in BuilderInputs(pg_type) :
         LET r == BuilderBuild(pg_type, b, debug_assertions)
         IN  /\ pg_entry' = IF Aborted(r) THEN pg_entry ELSE r.val
             /\ pg_pc' = IF Aborted(r) THEN "panic" ELSE "ready"
             /\ pg_last' = [op |-> "build", flag |-> FALSE,
                            address |-> b.address, before |-> pg_entry]
    /\ UNCHANGED pg_type

\* Self(0) / PageMap::new(): a fresh, all-zero entry.
PgNew == [op |-> "new", flag |-> FALSE, address |-> {}, before |-> {}]

PgIdle ==
    /\ pg_type = "PageTableEntry"
    /\ pg_entry = {}
    /\ pg_last = PgNew
    /\ pg_pc = "idle"

PgStart ==
    /\ pg_type \in EntryTypes \cup BuilderTypes
    /\ pg_entry = {}
    /\ pg_last = PgNew
    /\ pg_pc = "ready"

-----------------------------------------------------------------------------
(* 64-bit numbers that are added: four 16-bit limbs, least significant      *)
(* first.                                                                   *)

\* The u64 / usize holding a natural number below 2^31.
U64Of(n) == <<n % U16, (n \div U16) % U16, 0, 0>>

\* The exact sum of two u64: five limbs, the fifth being the carry out.
U64Sum(a, b) ==
    LET s1 == a[1] + b[1]
        s2 == a[2] + b[2] + s1 \div U16
        s3 == a[3] + b[3] + s2 \div U16
        s4 == a[4] + b[4] + s3 \div U16
    IN  <<s1 % U16, s2 % U16, s3 % U16, s4 % U16, s4 \div U16>>

-----------------------------------------------------------------------------
(* ELF structures, src/lib/frieren/src/structs.rs.                          *)

\* mem::size_of of the #[repr(packed)] structs: the sum of their fields.
\* FileHeader: magic_bytes, bitness, endianess, header_version, abi,
\* abi_version, padding, object_type, instruction_set, elf_version (u8),
\* entry_point, program_table_offset, section_table_offset, flags and six u16.
SizeOfFileHeader == 4 + 1 + 1 + 1 + 1 + 1 + 7 + 2 + 2 + 1 + 8 + 8 + 8 + 4 + 6 * 2
\* ProgramHeader: program_type, flags, and six u64.
SizeOfProgramHeader == 4 + 4 + 6 * 8
\* SectionHeader: name_offset, section_type, four u64, link, info, two u64.
SizeOfSectionHeader == 4 + 4 + 4 * 8 + 4 + 4 + 2 * 8

\* The fields of the three #[repr(packed)] structs, in declaration order,
\* each with its size in bytes.
FileHeaderFields ==
    <<<<"magic_bytes", 4>>, <<"bitness", 1>>, <<"endianess", 1>>,
      <<"header_version", 1>>, <<"abi", 1>>, <<"abi_version", 1>>,
      <<"padding", 7>>, <<"object_type", 2>>, <<"instruction_set", 2>>,
      <<"elf_version", 1>>, <<"entry_point", 8>>,
      <<"program_table_offset", 8>>, <<"section_table_offset", 8>>,
      <<"flags", 4>>, <<"size", 2>>, <<"program_header_size", 2>>,
      <<"program_table_entries", 2>>, <<"section_header_size", 2>>,
      <<"section_table_entries", 2>>, <<"section_names_index", 2>>>>
ProgramHeaderFields ==
    <<<<"program_type", 4>>, <<"flags", 4>>, <<"offset", 8>>,
      <<"address", 8>>, <<"physical_address", 8>>, <<"file_size", 8>>,
      <<"memory_size", 8>>, <<"alignment", 8>>>>
SectionHeaderFields ==
    <<<<"name_offset", 4>>, <<"section_type", 4>>, <<"flags", 8>>,
      <<"address", 8>>, <<"offset", 8>>, <<"size", 8>>, <<"link", 4>>,
      <<"info", 4>>, <<"alignment", 8>>, <<"entry_size", 8>>>>

\* repr(packed): no padding, so the first n fields take the sum of their
\* sizes, a field starts where the fields before it end, and the size of
\* the struct is the size of all its fields.
RECURSIVE PackedBytes(_, _)
PackedBytes(fields, n) ==
    IF n = 0 THEN 0 ELSE fields[n][2] + PackedBytes(fields, n - 1)
PackedOffset(fields, name) ==
    PackedBytes(fields, (CHOOSE i \in DOMAIN fields : fields[i][1] = name) - 1)
PackedSize(fields) == PackedBytes(fields, Len(fields))

\* The enums' discriminants.
BitnessX32 == 1
BitnessX64 == 2
EndianessLittle == 1
EndianessBig == 2
\* Endianess::NATIVE with target_endian = "little" (x86).
EndianessNATIVE == EndianessLittle
ABISystemV == 0
ABILinux == 3
ObjectTypeNone == 0
ObjectTypeRelocatable == 1
ObjectTypeExectuable == 2
ObjectTypeDyn == 3
ObjectTypeCore == 4

\* 7F 45 4C 46
ElfMagic == <<127, 69, 76, 70>>

-----------------------------------------------------------------------------
(* FileHeader::try_from_raw and section_table_range,                        *)
(* src/lib/frieren/src/lib.rs.                                              *)

Ok(h) == [ok |-> TRUE, err |-> "", header |-> h]
Err(e) == [ok |-> FALSE, err |-> e, header |-> <<>>]

\* try_from_raw with the endianness test placed before the bitness test.
try_from_raw_endianness_first(header) ==
    IF header.magic_bytes # ElfMagic THEN Err("NoMagicBytes")
    ELSE IF header.endianess # EndianessNATIVE THEN Err("BadEndianness")
    ELSE IF header.bitness # BitnessX64 THEN Err("Bitness32")
    ELSE IF header.elf_version # 1 \/ header.header_version # 1
      THEN Err("BadVersion")
    ELSE IF header.abi # ABISystemV THEN Err("BadABI")
    ELSE IF header.section_header_size # SizeOfSectionHeader
      THEN Err("BadHeaderSize(Section)")
    ELSE IF header.program_header_size # SizeOfProgramHeader
      THEN Err("BadHeaderSize(Program)")
    ELSE IF header.size # SizeOfFileHeader THEN Err("BadHeaderSize(File)")
    ELSE Ok(header)

\* FileHeader::try_from_raw
try_from_raw(header) ==
    IF header.magic_bytes # ElfMagic THEN Err("NoMagicBytes")
    ELSE IF header.bitness # BitnessX64 THEN Err("Bitness32")
    ELSE IF header.endianess # EndianessNATIVE THEN Err("BadEndianness")
    ELSE IF header.elf_version # 1 \/ header.header_version # 1
      THEN Err("BadVersion")
    ELSE IF header.abi # ABISystemV THEN Err("BadABI")
    ELSE IF header.section_header_size # SizeOfSectionHeader
      THEN Err("BadHeaderSize(Section)")
    ELSE IF header.program_header_size # SizeOfProgramHeader
      THEN Err("BadHeaderSize(Program)")
    ELSE IF header.size # SizeOfFileHeader THEN Err("BadHeaderSize(File)")
    ELSE Ok(header)

\* value as usize: the low pointer_width bits.
AsUsize(value, width) ==
    [i \in 1..4 |-> IF i * 16 <= width THEN value[i] ELSE 0]

\* a + b on usize: the low pointer_width bits of the sum.
WrappingAdd(a, b, width) == AsUsize(SubSeq(U64Sum(a, b), 1, 4), width)

\* TRUE when a + b does not fit in a usize.
AddOverflows(a, b, width) ==
    Append(WrappingAdd(a, b, width), 0) # U64Sum(a, b)

\* section_table_range taking its start from program_table_offset.
section_table_range_program_offset(self, checks, width) ==
    LET start == AsUsize(self.program_table_offset, width)
        len == U64Of(SizeOfSectionHeader * self.section_table_entries)
    IN  IF checks /\ AddOverflows(start, len, width)
          THEN [panic |-> "attempt to add with overflow", start |-> start,
                end |-> start]
          ELSE [panic |-> "", start |-> start,
                end |-> WrappingAdd(start, len, width)]

\* FileHeader::section_table_range.  The offset is narrowed to usize;
\* start + len panics on overflow in a build with overflow checks and wraps
\* in one without.
section_table_range(self, checks, width) ==
    LET start == AsUsize(self.section_table_offset, width)
        len == U64Of(SizeOfSectionHeader * self.section_table_entries)
    IN  IF checks /\ AddOverflows(start, len, width)
          THEN [panic |-> "attempt to add with overflow", start |-> start,
                end |-> start]
          ELSE [panic |-> "", start |-> start,
                end |-> WrappingAdd(start, len, width)]

\* parse_from_sector, src/bootloader/src/elf.rs: the checks exist only under
\* #[cfg(debug_assertions)], each one a panic.
parse_from_sector(header, dbg) ==
    IF ~dbg THEN Ok(header)
    ELSE IF header.magic_bytes # ElfMagic
      THEN Err("Couldn't find the ELF magic bytes.")
    ELSE IF header.bitness # BitnessX64
      THEN Err("BS only supports 64-bit ELFs.")
    ELSE IF header.elf_version # 1 \/ header.header_version # 1
      THEN Err("BS only supports v1 ELFs.")
    ELSE IF header.abi # ABISystemV
      THEN Err("BS only supports the SystemV ABI.")
    ELSE IF header.object_type # ObjectTypeDyn
      THEN Err("BS only supports position-independent ELF objects.")
    ELSE Ok(header)

\* The headers validation is run on.
ElfOffsets == {<<0, 0, 0, 0>>, <<64, 0, 0, 0>>, <<64, 0, 1, 0>>,
               <<65472, 65535, 65535, 65535>>}
ElfHeaders ==
    [magic_bytes : {ElfMagic, <<127, 69, 76, 71>>},
     bitness : {BitnessX32, BitnessX64},
     endianess : {EndianessLittle, EndianessBig},
     header_version : {1, 2},
     abi : {ABISystemV, ABILinux},
     object_type : {ObjectTypeNone, ObjectTypeRelocatable, ObjectTypeExectuable,
                    ObjectTypeDyn, ObjectTypeCore},
     elf_version : {1, 2},
     program_table_offset : {<<64, 0, 0, 0>>},
     section_table_offset : ElfOffsets,
     size : {SizeOfFileHeader, 64},
     program_header_size : {SizeOfProgramHeader, 32},
     program_table_entries : {1},
     section_header_size : {SizeOfSectionHeader, 40},
     section_table_entries : {0, 1, 65535}]

\* let header = FileHeader::try_from_raw(ptr)
elf_try_from_raw ==
    /\ elf_impl = "frieren"
    /\ elf_pc = "input"
    /\ elf_result' = try_from_raw(elf_header)
    /\ elf_pc' = "validated"
    /\ UNCHANGED <<elf_impl, elf_header, elf_range>>

\* header.section_table_range(), on a header validation returned
elf_section_table_range ==
    /\ elf_impl = "frieren"
    /\ elf_pc = "validated"
    /\ elf_result.ok
    /\ elf_range' = section_table_range(elf_result.header, overflow_checks,
                                       pointer_width)
    /\ elf_pc' = "ranged"
    /\ UNCHANGED <<elf_impl, elf_header, elf_result>>

\* elf::parse_from_sector(sector)
elf_parse_from_sector ==
    /\ elf_impl = "bootloader"
    /\ elf_pc = "input"
    /\ elf_result' = parse_from_sector(elf_header, debug_assertions)
    /\ elf_pc' = "validated"
    /\ UNCHANGED <<elf_impl, elf_header, elf_range>>

NoRange == [panic |-> "not called", start |-> <<0, 0, 0, 0>>,
            end |-> <<0, 0, 0, 0>>]

ElfIdle ==
    /\ elf_impl = "frieren"
    /\ elf_header = <<>>
    /\ elf_result = Err("not validated")
    /\ elf_range = NoRange
    /\ elf_pc = "idle"

ElfStart ==
    /\ elf_impl \in {"frieren", "bootloader"}
    /\ elf_header \in ElfHeaders
    /\ elf_result = Err("not validated")
    /\ elf_range = NoRange
    /\ elf_pc = "input"

-----------------------------------------------------------------------------
(* The transition to long mode:                                             *)
(*   enable_64_bit_mode, src/bootloader/src/main.rs                         *)
(*   main,               src/boot/bootloader/src/main.rs                    *)

\* Bit positions: CR0.PE, CR0.WP, CR0.PG, CR4.PAE, EFER.LME.
CR0_PE == 0
CR0_WP == 16
CR0_PG == 31
CR4_PAE == 5
EFER_LME == 8

\* The instruction blocks of each sequence, in program order.
Sequence(impl) ==
    IF impl = "enable_64_bit_mode"
      THEN <<"lgdt", "cr3", "pae", "lme", "cr0", "done">>
      ELSE <<"cr3", "lme", "cr0", "lgdt", "done">>

\* The block after pc in program order.
NextBlock(impl, pc) ==
    LET seq == Sequence(impl)
        i == CHOOSE k \in 1..Len(seq) : seq[k] = pc
    IN  seq[i + 1]

\* What lgdt loads from its memory operand: a 16-bit limit, then the base.
\* words is the operand's memory as 16-bit words.
Lgdt(words) == [limit |-> words[1], base |-> <<words[2], words[3]>>]

\* #[repr(packed)] struct GDTDescriptor { offset: u64, size: u16 } in memory.
GDTDescriptorWords(d) == <<d.offset[1], d.offset[2], d.offset[3], d.offset[4], d.size>>

\* asm!("lgdt [{}]", in(reg) &gdt_descriptor) in enable_64_bit_mode, where
\* gdt_descriptor is itself a reference: the operand is the stack slot that
\* holds the pointer, followed by whatever the stack holds next.
mt_lgdt_reference ==
    /\ mt_impl = "enable_64_bit_mode"
    /\ mt_pc = "lgdt"
    /\ \E w2 \in {0, 4660}, w3 \in {0, 22136} :
         gdtr' = Lgdt(<<31744, w2, w3>>)
    /\ mt_steps' = Append(mt_steps, "load GDT")
    /\ mt_pc' = NextBlock(mt_impl, mt_pc)
    /\ UNCHANGED <<mt_impl, pml4_address, gdt_descriptor, cr0, cr3, cr4, efer, cs>>

\* asm!("lgdt [{}]", in(reg) &gdt_descriptor) in main, where gdt_descriptor
\* is the descriptor itself.
mt_lgdt_descriptor ==
    /\ mt_impl = "main"
    /\ mt_pc = "lgdt"
    /\ gdtr' = Lgdt(GDTDescriptorWords(gdt_descriptor))
    /\ mt_steps' = Append(mt_steps, "load GDT")
    /\ mt_pc' = NextBlock(mt_impl, mt_pc)
    /\ UNCHANGED <<mt_impl, pml4_address, gdt_descriptor, cr0, cr3, cr4, efer, cs>>

\* asm!("mov cr3, eax", in("eax") <address of the page map level 4>)
mt_load_cr3 ==
    /\ mt_pc = "cr3"
    /\ cr3' = pml4_address
    /\ mt_steps' = Append(mt_steps, "load CR3")
    /\ mt_pc' = NextBlock(mt_impl, mt_pc)
    /\ UNCHANGED <<mt_impl, pml4_address, gdt_descriptor, cr0, cr4, efer, gdtr, cs>>

\* mov eax, cr4 ; or eax, (1 << 5) ; mov cr4, eax   (commented out in main)
mt_set_pae ==
    /\ mt_impl = "enable_64_bit_mode"
    /\ mt_pc = "pae"
    /\ cr4' = BitOr(cr4, {CR4_PAE})
    /\ mt_steps' = Append(mt_steps, "set PAE")
    /\ mt_pc' = NextBlock(mt_impl, mt_pc)
    /\ UNCHANGED <<mt_impl, pml4_address, gdt_descriptor, cr0, cr3, efer, gdtr, cs>>

\* mov ecx, 0xC0000080 ; rdmsr ; or eax, 1 << 8 ; wrmsr
mt_set_lme ==
    /\ mt_pc = "lme"
    /\ efer' = BitOr(efer, {EFER_LME})
    /\ mt_steps' = Append(mt_steps, "set LME")
    /\ mt_pc' = NextBlock(mt_impl, mt_pc)
    /\ UNCHANGED <<mt_impl, pml4_address, gdt_descriptor, cr0, cr3, cr4, gdtr, cs>>

\* mov eax, cr0 ; or eax, 0x80000001 ; mov cr0, eax    (enable_64_bit_mode)
\* mov eax, cr0 ; or eax, 1 << 0 ; or eax, 1 << 16 ; or eax, 1 << 31 ; mov cr0, eax  (main)
mt_write_cr0 ==
    /\ mt_pc = "cr0"
    /\ cr0' = IF mt_impl = "enable_64_bit_mode"
                THEN BitOr(cr0, {CR0_PE, CR0_PG})
                ELSE BitOr(BitOr(BitOr(cr0, {CR0_PE}), {CR0_WP}), {CR0_PG})
    /\ mt_steps' = Append(mt_steps, "write CR0 PE|PG")
    /\ mt_pc' = NextBlock(mt_impl, mt_pc)
    /\ UNCHANGED <<mt_impl, pml4_address, gdt_descriptor, cr3, cr4, efer, gdtr, cs>>

\* The descriptors build_gdt returns: size 23 and the address of the table.
MtDescriptors == {[offset |-> <<32000, 0, 0, 0>>, size |-> 23],
                  [offset |-> <<512, 1, 0, 0>>, size |-> 23]}

\* The state of a CPU in real mode, as the BIOS and the bootstrapper leave it:
\* protection, paging, PAE and long mode off, CS zeroed by the far jump.
MtStart ==
    /\ mt_impl \in {"enable_64_bit_mode", "main"}
    /\ mt_pc = Sequence(mt_impl)[1]
    /\ pml4_address \in {4096, 20480, 1048576}
    /\ gdt_descriptor \in MtDescriptors
    /\ cr0 \in SUBSET {4, CR0_WP}
    /\ cr3 = 0
    /\ cr4 \in SUBSET {4, 7}
    /\ efer \in SUBSET {0, 11}
    /\ gdtr = [limit |-> 0, base |-> <<0, 0>>]
    /\ cs = 0
    /\ mt_steps = <<>>

MtIdle ==
    /\ mt_impl = "main"
    /\ mt_pc = "idle"
    /\ pml4_address = 0
    /\ gdt_descriptor = [offset |-> <<0, 0, 0, 0>>, size |-> 0]
    /\ cr0 = {}
    /\ cr3 = 0
    /\ cr4 = {}
    /\ efer = {}
    /\ gdtr = [limit |-> 0, base |-> <<0, 0>>]
    /\ cs = 0
    /\ mt_steps = <<>>

-----------------------------------------------------------------------------
(* Stage 1, the bootloader's main:                                          *)
(*   main, build_gdt, build_page_tables of src/bootloader/src/main.rs       *)
(*   (mt_impl = "enable_64_bit_mode") and of                                *)
(*   src/boot/bootloader/src/main.rs (mt_impl = "main").                    *)

\* Where the compiler and the linker put each variable.  Page maps are
\* #[repr(align(0x1000))]; main::gdt_descriptor is where lgdt's pointer leads.
AddressOf(variable) ==
    CASE variable = "build_page_tables::page_table" -> 4096
      [] variable = "build_page_tables::page_directory" -> 8192
      [] variable = "build_page_tables::page_directory_pointer_table" -> 12288
      [] variable = "build_page_tables::page_map_level_4" -> 16384
      [] variable = "main::page_map_level_4" -> 20480
      [] variable = "build_gdt::gdt" -> 28416
      [] variable = "main::gdt_descriptor" -> 31744

Variables ==
    {"build_page_tables::page_table", "build_page_tables::page_directory",
     "build_page_tables::page_directory_pointer_table",
     "build_page_tables::page_map_level_4", "main::page_map_level_4",
     "build_gdt::gdt", "main::gdt_descriptor"}

\* The second and third entries of the array literal in build_gdt.
BuildGdtEntry(executable) ==
    SegmentDescriptorBuilder_build(
        [base |-> <<0, 0>>,
         limit |-> U20_MAX,
         flags |-> [paged_limit |-> TRUE, protected |-> FALSE, long |-> TRUE],
         access |-> [present |-> TRUE, privilege |-> 0, non_system |-> TRUE,
                     executable |-> executable,
                     direction_conforming |-> FALSE, read_write |-> TRUE,
                     accessed |-> TRUE]])

\* The array literal of build_gdt: the null descriptor and the two built.
BuildGdtTable ==
    <<<<0, 0, 0, 0, 0, 0, 0, 0>>, BuildGdtEntry(TRUE).val,
      BuildGdtEntry(FALSE).val>>

\* let gdt_descriptor = build_gdt();  The array gdt is a local of build_gdt:
\* its storage is build_gdt's only until build_gdt returns.
build_gdt ==
    /\ st_pc = "build_gdt"
    /\ LET table == BuildGdtTable
       IN  /\ gdt' = table
           /\ gdt_descriptor' = [offset |-> U64Of(AddressOf("build_gdt::gdt")),
                                 size |-> (8 * Len(table)) - 1]
    /\ live' = live \cup {"main::gdt_descriptor"}
    /\ st_pc' = "build_page_tables"
    /\ UNCHANGED <<mt_impl, mt_pc, pml4_address, cr0, cr3, cr4, efer, gdtr, cs,
                   mt_steps, page_maps>>

\* The u64 holding n << shift, for a natural number n below 2^31.
NatBits(n, shift) ==
    {i + shift : i \in {k \in 0..30 : (n \div (2^k)) % 2 = 1}} \cap (0..63)

\* PageMap::new(): 512 zeroed entries.
PageMap_new == [i \in 0..511 |-> {}]

\* The i-th iteration of the loop of build_page_tables of src/bootloader:
\* address is 0x40000000 * i.
DirectMapEntry(i, dbg) ==
    PageDirectoryPointerTableEntryBuilder_build(
        [present |-> TRUE, writable |-> TRUE, user_mode |-> FALSE,
         write_through |-> FALSE, cache_disabled |-> FALSE,
         accessed |-> FALSE, dirty |-> FALSE, direct_map |-> TRUE,
         global |-> FALSE, pat |-> FALSE, address |-> NatBits(i, 30),
         protection_key |-> NoKey, execute_disable |-> FALSE], dbg)

\* page_map_level_4.0[0] of build_page_tables of src/bootloader.
Level4Entry(dbg) ==
    PageMapLevel4EntryBuilder_build(
        [present |-> TRUE, writable |-> TRUE, user_mode |-> FALSE,
         write_through |-> FALSE, cache_disabled |-> FALSE,
         accessed |-> FALSE,
         address |-> NatBits(AddressOf(
                        "build_page_tables::page_directory_pointer_table"), 0),
         execute_disable |-> FALSE], dbg)

\* entry.set_present(true).set_address(address): the entry left read-only.
PresentReadOnlyAt(at) == set_address(set_present({}, TRUE), at)

\* entry.set_present(true).set_writable(true).set_address(address), on a
\* zeroed entry of the common crate.
PresentWritableAt(at) ==
    set_address(set_writable(set_present({}, TRUE), TRUE), at)

\* The maps build_page_tables of src/bootloader writes, by variable, and the
\* variable that is returned.
BuildPageTablesOld(dbg) ==
    [maps |->
        [v \in {"build_page_tables::page_directory_pointer_table",
                "build_page_tables::page_map_level_4"} |->
            IF v = "build_page_tables::page_map_level_4"
              THEN [PageMap_new EXCEPT ![0] = Level4Entry(dbg).val]
              ELSE [i \in 0..511 |-> DirectMapEntry(i, dbg).val]],
     panic |-> Aborted(Level4Entry(dbg))
                  \/ \E i \in 0..511 : Aborted(DirectMapEntry(i, dbg))]

\* build_page_tables of src/bootloader in a build without and with debug
\* assertions.
BuildPageTablesOldIn == [dbg \in BOOLEAN |-> BuildPageTablesOld(dbg)]

\* The maps build_page_tables of src/boot/bootloader writes: address is
\* 0x1000 * i in the i-th iteration of the loop.
BuildPageTablesNew ==
    LET below(v) ==
            CASE v = "build_page_tables::page_directory" ->
                    "build_page_tables::page_table"
              [] v = "build_page_tables::page_directory_pointer_table" ->
                    "build_page_tables::page_directory"
              [] v = "build_page_tables::page_map_level_4" ->
                    "build_page_tables::page_directory_pointer_table"
        first(v) == PresentWritableAt(NatBits(AddressOf(below(v)), 0))
        upper == {"build_page_tables::page_directory",
                  "build_page_tables::page_directory_pointer_table",
                  "build_page_tables::page_map_level_4"}
    IN  [maps |->
            [v \in upper \cup {"build_page_tables::page_table"} |->
                IF v \in upper
                  THEN [PageMap_new EXCEPT ![0] = first(v).val]
                  ELSE [i \in 0..511 |-> PresentWritableAt(NatBits(i, 12)).val]],
         panic |-> \/ \E v \in upper : Aborted(first(v))
                   \/ \E i \in 0..511 : Aborted(PresentWritableAt(NatBits(i, 12)))]

\* let page_map_level_4 = build_page_tables();  Every map is a local of
\* build_page_tables; the level 4 map is returned by value, which moves it
\* into main's variable, and the storage of the others is build_page_tables'
\* only until it returns.
build_page_tables ==
    /\ st_pc = "build_page_tables"
    /\ LET built == IF mt_impl = "enable_64_bit_mode"
                      THEN BuildPageTablesOldIn[debug_assertions]
                      ELSE BuildPageTablesNew
           returned == "build_page_tables::page_map_level_4"
       IN  IF built.panic
             THEN /\ st_pc' = "panic"
                  /\ UNCHANGED <<page_maps, live, pml4_address, mt_pc>>
             ELSE /\ page_maps' =
                        [v \in (DOMAIN built.maps \ {returned})
                                  \cup {"main::page_map_level_4"} |->
                            IF v = "main::page_map_level_4"
                              THEN built.maps[returned] ELSE built.maps[v]]
                  /\ live' = live \cup {"main::page_map_level_4"}
                  /\ pml4_address' = AddressOf("main::page_map_level_4")
                  /\ st_pc' = "transition"
                  /\ mt_pc' = Sequence(mt_impl)[1]
    /\ UNCHANGED <<mt_impl, gdt_descriptor, cr0, cr3, cr4, efer, gdtr, cs,
                   mt_steps, gdt>>

\* src/bootloader main after enable_64_bit_mode: the message is written to
\* the VGA buffer and the CPU halted.
main_halt ==
    /\ mt_impl = "enable_64_bit_mode"
    /\ st_pc = "transition"
    /\ mt_pc = "done"
    /\ st_pc' = "halted"
    /\ UNCHANGED <<mtVars, gdt, page_maps, live>>

\* src/boot/bootloader main after lgdt: the function ends, its variables
\* with it.
main_return ==
    /\ mt_impl = "main"
    /\ st_pc = "transition"
    /\ mt_pc = "done"
    /\ st_pc' = "returned"
    /\ live' = {}
    /\ UNCHANGED <<mtVars, gdt, page_maps>>

\* Entry into main: real mode as the bootstrapper leaves it, nothing built.
St1Start ==
    /\ mt_impl \in {"enable_64_bit_mode", "main"}
    /\ mt_pc = "not entered"
    /\ pml4_address = 0
    /\ gdt_descriptor = [offset |-> <<0, 0, 0, 0>>, size |-> 0]
    /\ cr0 \in SUBSET {4, CR0_WP}
    /\ cr3 = 0
    /\ cr4 \in SUBSET {4, 7}
    /\ efer \in SUBSET {0, 11}
    /\ gdtr = [limit |-> 0, base |-> <<0, 0>>]
    /\ cs = 0
    /\ mt_steps = <<>>
    /\ st_pc = "build_gdt"
    /\ gdt = <<>>
    /\ page_maps = <<>>
    /\ live = {}

\* Stage 1 not entered.
St1Idle ==
    /\ st_pc = "idle"
    /\ gdt = <<>>
    /\ page_maps = <<>>
    /\ live = {}

-----------------------------------------------------------------------------
(* The chain of stages: Stage 0 is the bootstrapper                         *)
(* (src/boot/bootstrapper/src/main.rs, lp_impl = "bootstrapper", or the     *)
(* superseded src/bootstrapper/src/main.rs, lp_impl = "legacy"), Stage 1    *)
(* the bootloader it loads.                                                 *)

NoHandoff == [target |-> 0, args |-> <<>>]

\* The same test made on bit 7 (PGE).
PgeEnabled(c4) == 7 \in c4

\* mov %cr4, %ecx ; and $0b100000, %ecx ; cmp $0b100000, %ecx ; je
PaeEnabled(c4) == CR4_PAE \in c4

\* mov $0x7C00, %sp (mov sp, 0x4000 in src/bootstrapper)
StackTop(impl) == IF impl = "legacy" THEN 16384 ELSE 31744

\* The registers as a BIOS may leave them on entry: interrupts enabled, the
\* rest arbitrary.
BiosRegs ==
    {[df |-> FALSE, intf |-> TRUE, ds |-> 0, es |-> 0, ss |-> 0, fs |-> 0,
      gs |-> 0, sp |-> 1024, bp |-> 0],
     [df |-> TRUE, intf |-> TRUE, ds |-> 64, es |-> 1984, ss |-> 48,
      fs |-> 64, gs |-> 64, sp |-> 256, bp |-> 4660]}

\* asm_main up to the call of bootloader or elfloader (of main in
\* src/bootstrapper).  With PAE set, call elfloader is executed at once and
\* pushes a return address; otherwise ljmp $0 zeroes CS (which the
\* superseded asm_main does not do), then cld, cli, the segment registers
\* and the stack are set, and pushw %dx ; call bootloader take 4 bytes of
\* stack.
asm_main ==
    /\ ch_pc = "asm_main"
    /\ IF lp_impl = "bootstrapper" /\ PaeEnabled(cr4)
         THEN /\ ch_pc' = "elfloader"
              /\ regs' = [regs EXCEPT !.sp = (regs.sp - 2) % U16]
              /\ UNCHANGED <<cs, lp_pc>>
         ELSE /\ cs' = IF lp_impl = "bootstrapper" THEN 0 ELSE cs
              /\ regs' = [df |-> FALSE, intf |-> FALSE, ds |-> 0, es |-> 0,
                          ss |-> 0, fs |-> 0, gs |-> 0,
                          sp |-> StackTop(lp_impl) - 4,
                          bp |-> IF lp_impl = "bootstrapper"
                                   THEN StackTop(lp_impl) ELSE regs.bp]
              /\ lp_pc' = "read"
              /\ ch_pc' = "bootloader"
    /\ UNCHANGED <<stage, boot_disk, handoff, entered>>
    /\ UNCHANGED <<lp_impl, start_sector, prog_len, sector, address, sig, mem,
                   reads, inspected, lp_ret>>
    /\ UNCHANGED <<mt_impl, mt_pc, pml4_address, gdt_descriptor, cr0, cr3, cr4,
                   efer, gdtr, mt_steps, stVars>>

\* let main: extern "C" fn(u16) -> ! = transmute(0x7E00); main(sector)
\* (0x4000 and fn(u8) in src/bootstrapper): Stage 1 is entered at the
\* address loading started at, with the sector as its only argument.
bootloader_calls_main ==
    /\ ch_pc = "bootloader"
    /\ lp_pc = "done"
    /\ handoff' = [target |-> LoadBase(lp_impl), args |-> <<lp_ret>>]
    /\ stage' = "Stage 1"
    /\ entered' = Append(entered, "Stage 1")
    /\ ch_pc' = "main"
    /\ st_pc' = "build_gdt"
    /\ UNCHANGED <<boot_disk, regs, lpVars, mtVars, gdt, page_maps, live>>

\* Stage 1's main has returned: control is back in bootloader, after a call
\* of a function declared never to return.  What runs next is not defined:
\* the trap the compiler may leave there, or the code that follows, which is
\* elfloader and its hlt.
main_returns_to_bootloader ==
    /\ stage = "Stage 1"
    /\ st_pc = "returned"
    /\ stage' = "Stage 0"
    /\ entered' = Append(entered, "Stage 0")
    /\ ch_pc' \in {"trap", "elfloader"}
    /\ UNCHANGED <<boot_disk, handoff, regs, lpVars, mtVars, stVars>>

\* The chain not started.
ChIdle ==
    /\ stage = "none"
    /\ ch_pc = "idle"
    /\ boot_disk = 128
    /\ handoff = NoHandoff
    /\ entered = <<>>
    /\ regs = [df |-> FALSE, intf |-> TRUE, ds |-> 0, es |-> 0, ss |-> 0,
               fs |-> 0, gs |-> 0, sp |-> 1024, bp |-> 0]

\* The BIOS has loaded Stage 0 and jumped to it, with the boot disk in DL and
\* the CPU in real mode, CS:IP being 0000:7C00 or 07C0:0000.  The disk holds
\* a Stage 1 of 1..ChainSectors sectors behind Stage 0.
BiosEntry ==
    /\ stage = "Stage 0"
    /\ regs \in BiosRegs
    /\ ch_pc = "asm_main"
    /\ boot_disk \in {0, 128, 129}
    /\ handoff = NoHandoff
    /\ entered = <<"Stage 0">>
    /\ lp_impl \in {"bootstrapper", "legacy"}
    /\ start_sector = IF lp_impl = "bootstrapper" THEN 1 ELSE 2
    /\ prog_len \in 1..ChainSectors
    /\ lp_pc = "not entered"
    /\ sector = start_sector
    /\ address = LoadBase(lp_impl)
    /\ sig = FALSE
    /\ mem \in StaleMemory(lp_impl)
    /\ reads = <<>>
    /\ inspected = <<>>
    /\ lp_ret = 0
    /\ mt_impl = IF lp_impl = "bootstrapper" THEN "main" ELSE "enable_64_bit_mode"
    /\ mt_pc = "not entered"
    /\ pml4_address = 0
    /\ gdt_descriptor = [offset |-> <<0, 0, 0, 0>>, size |-> 0]
    /\ cr0 = {4}
    /\ cr3 = 0
    /\ efer = {}
    /\ gdtr = [limit |-> 0, base |-> <<0, 0>>]
    /\ cs \in {0, 1984}
    /\ mt_steps = <<>>
    /\ st_pc = "not entered"
    /\ gdt = <<>>
    /\ page_maps = <<>>
    /\ live = {}

\* Entry from the BIOS after a reset: CR4 is clear.
ChainStart == BiosEntry /\ cr4 = {}

\* Entry into asm_main with any CR4: from the BIOS, or, as asm_main's comment
\* has it, after the bootloader has run and enabled PAE (and possibly PGE).
EntryStart == BiosEntry /\ cr4 \in SUBSET {CR4_PAE, 7}

-----------------------------------------------------------------------------
(* The console Printer (src/lib/common/src/printing.rs).                    *)

NUM_ROWS == 25
NUM_COLUMNS == 80
LEN == NUM_ROWS * NUM_COLUMNS

\* A VgaTextChar: the two bytes of the packed struct, letter first.
VgaTextChar(letter, colour) == letter + 256 * colour

\* The bytes write_byte is called with: '\n', '\r' and an ordinary byte.
NewLine == 10
CarriageReturn == 13
PrinterBytes == {NewLine, CarriageReturn, 65}

\* The screen is the sequence of its NUM_ROWS * NUM_COLUMNS cells: cell k of
\* the code (buffer[k]) is element k + 1.
\*
\* One pass of bump_screen's outer loop: the cells of row are copied over the
\* cells of the row above.
CopyRowUp(buffer, row) ==
    SubSeq(buffer, 1, (row - 1) * NUM_COLUMNS)
        \o SubSeq(buffer, row * NUM_COLUMNS + 1, row * NUM_COLUMNS + NUM_COLUMNS)
        \o SubSeq(buffer, row * NUM_COLUMNS + 1, Len(buffer))

\* The outer loop, for row in 1..NUM_ROWS, in the code's order.
RECURSIVE CopyRowsUp(_, _)
CopyRowsUp(buffer, row) ==
    IF row = NUM_ROWS THEN buffer
    ELSE CopyRowsUp(CopyRowUp(buffer, row), row + 1)

BlankRow == [col \in 1..NUM_COLUMNS |-> VgaTextChar(0, 0)]

\* bump_screen with the last row left as it was.
bump_screen_keep_last_row(buffer) ==
    [buffer |-> CopyRowsUp(buffer, 1), idx |-> (NUM_ROWS - 1) * NUM_COLUMNS]

\* bump_screen: every row moves up by one, the last row is cleared and idx is
\* set to the start of the last row.
bump_screen(buffer) ==
    [buffer |-> SubSeq(CopyRowsUp(buffer, 1), 1, (NUM_ROWS - 1) * NUM_COLUMNS)
                    \o BlankRow,
     idx |-> (NUM_ROWS - 1) * NUM_COLUMNS]

\* The match of write_byte: the cell written (-1 for none), the screen and
\* the idx after it.
WriteByteMatch(idx, buffer, byte) ==
    IF byte = NewLine
    THEN [cell |-> -1, buffer |-> buffer,
          idx |-> idx + (NUM_COLUMNS - (idx % NUM_COLUMNS))]
    ELSE IF byte = CarriageReturn
    THEN [cell |-> -1, buffer |-> buffer, idx |-> idx - (idx % NUM_COLUMNS)]
    ELSE [cell |-> idx,
          buffer |-> [buffer EXCEPT ![idx + 1] = VgaTextChar(byte, 15)],
          idx |-> idx + 1]

write_byte(idx, buffer, byte) ==
    LET m == WriteByteMatch(idx, buffer, byte)
        bumped == bump_screen(m.buffer)
    IN  IF m.idx >= NUM_ROWS * NUM_COLUMNS
        THEN [cell |-> m.cell, moved |-> m.idx,
              buffer |-> bumped.buffer, idx |-> bumped.idx]
        ELSE [cell |-> m.cell, moved |-> m.idx, buffer |-> m.buffer, idx |-> m.idx]

NoWrite == [byte |-> 0, idx |-> 0, cell |-> -1, moved |-> 0]

\* Most write_byte calls made in one run.
MaxWrites == 2

pr_write_byte ==
    /\ pr_pc = "run"
    /\ pr_calls < MaxWrites
    /\ \E byte \in PrinterBytes :
          LET r == write_byte(pr_idx, pr_buffer, byte)
          IN  /\ pr_idx' = r.idx
              /\ pr_buffer' = r.buffer
              /\ pr_last' = [byte |-> byte, idx |-> pr_idx, cell |-> r.cell,
                             moved |-> r.moved]
    /\ pr_calls' = pr_calls + 1
    /\ UNCHANGED pr_pc

\* A screen on which every row differs from its neighbours: row r is filled
\* with the letter 'a' + r.
StampedScreen ==
    [k \in 1..LEN |-> VgaTextChar(97 + ((k - 1) \div NUM_COLUMNS), 15)]

\* The Printer after any number of write_byte calls from idx = 0: idx is any
\* cell of the screen (idx ordinary bytes lead there).
PrStart ==
    /\ pr_pc = "run"
    /\ pr_idx \in 0..(LEN - 1)
    /\ pr_buffer = StampedScreen
    /\ pr_last = NoWrite
    /\ pr_calls = 0

PrIdle ==
    /\ pr_pc = "idle"
    /\ pr_idx = 0
    /\ pr_buffer = <<>>
    /\ pr_last = NoWrite
    /\ pr_calls = 0

-----------------------------------------------------------------------------
(* PCI configuration addresses (src/lib/pci/src/configuration.rs).          *)

\* The bits of a u8 moved left by shift, in a u32.
U32Shl(x, shift) == {i + shift : i \in ByteBits(x)} \cap (0..31)

\* (word >> shift) as u8: the eight bits from shift upwards.
U32ShrAsU8(word, shift) ==
    LET S == {i \in 0..7 : (i + shift) \in word}
    IN  BitValue(S, 0) + BitValue(S, 1) + BitValue(S, 2) + BitValue(S, 3)
          + BitValue(S, 4) + BitValue(S, 5) + BitValue(S, 6) + BitValue(S, 7)

PciDeviceAddress_new == {}
with_bus(self, bus) == BitOr(self, U32Shl(bus, 16))
with_device(self, device) == BitOr(self, U32Shl(device, 11))
with_function(self, function) == BitOr(self, U32Shl(function, 8))

PciDeviceAddress_bus(self) == U32ShrAsU8(self, 16)
PciDeviceAddress_device(self) == U32ShrAsU8(self, 11)
PciDeviceAddress_function(self) == U32ShrAsU8(self, 8)

\* The address PciDevice::new builds.
PciDevice_address(bus, device, function) ==
    with_function(with_device(with_bus(PciDeviceAddress_new, bus), device), function)

NoPciDevice == [bus |-> 0, device |-> 0, function |-> 0]

\* PciDevice::new(bus, device, function), the device being present.
PciDevice_new ==
    /\ pci_pc = "new"
    /\ pci_address' = PciDevice_address(pci_in.bus, pci_in.device, pci_in.function)
    /\ pci_pc' = "built"
    /\ UNCHANGED <<pci_in, pci_out, pci_again>>

\* PciDevice::bus, device and function.
PciDevice_read_back ==
    /\ pci_pc = "built"
    /\ pci_out' = [bus |-> PciDeviceAddress_bus(pci_address),
                   device |-> PciDeviceAddress_device(pci_address),
                   function |-> PciDeviceAddress_function(pci_address)]
    /\ pci_pc' = "read"
    /\ UNCHANGED <<pci_in, pci_address, pci_again>>

\* handle_pci_bus on a multi-function device: PciDevice::new(device.bus(),
\* device.device(), function) with function counting from 0.
handle_pci_bus_again ==
    /\ pci_pc = "read"
    /\ pci_again' = PciDevice_address(pci_out.bus, pci_out.device, 0)
    /\ pci_pc' = "again"
    /\ UNCHANGED <<pci_in, pci_address, pci_out>>

PciStart ==
    /\ pci_pc = "new"
    /\ pci_in \in [bus : 0..255, device : 0..31, function : 0..7]
    /\ pci_address = {}
    /\ pci_out = NoPciDevice
    /\ pci_again = {}

PciIdle ==
    /\ pci_pc = "idle"
    /\ pci_in = NoPciDevice
    /\ pci_address = {}
    /\ pci_out = NoPciDevice
    /\ pci_again = {}

-----------------------------------------------------------------------------
(* The specifications: one per component, the others left idle.             *)

\* The build profile is the builder's choice; a component that has no code
\* depending on a setting runs with it off.
Build(overflow, debug, widths) ==
    /\ overflow_checks \in overflow
    /\ debug_assertions \in debug
    /\ pointer_width \in widths

LoaderInit ==
    LoaderStart /\ Build(BOOLEAN, {FALSE}, {64}) /\ GdtIdle /\ PgIdle /\ ElfIdle
        /\ MtIdle /\ St1Idle /\ ChIdle
        /\ PrIdle /\ PciIdle

LoaderNext ==
    \/ disk_rs_read /\ UNCHANGED <<prVars, pciVars, buildVars, gdtVars, pgVars, elfVars, mtVars, stVars, chVars>>
    \/ disk_rs_check /\ UNCHANGED <<prVars, pciVars, buildVars, gdtVars, pgVars, elfVars, mtVars, stVars, chVars>>
    \/ read_sectors /\ UNCHANGED <<prVars, pciVars, buildVars, gdtVars, pgVars, elfVars, mtVars, stVars, chVars>>
    \/ bootstrapper_check /\ UNCHANGED <<prVars, pciVars, buildVars, gdtVars, pgVars, elfVars, mtVars, stVars, chVars>>
    \/ legacy_read /\ UNCHANGED <<prVars, pciVars, buildVars, gdtVars, pgVars, elfVars, mtVars, stVars, chVars>>
    \/ legacy_check /\ UNCHANGED <<prVars, pciVars, buildVars, gdtVars, pgVars, elfVars, mtVars, stVars, chVars>>

SpecLoader == LoaderInit /\ [][LoaderNext]_vars

\* The loader runs on a CPU that executes its next instruction: it stops
\* only where the code does.
SpecLoaderLive == SpecLoader /\ WF_vars(LoaderNext)

GdtInit ==
    GdtStart /\ Build({FALSE}, {FALSE}, {64}) /\ LoaderIdle /\ PgIdle /\ ElfIdle
        /\ MtIdle /\ St1Idle /\ ChIdle
        /\ PrIdle /\ PciIdle

GdtNext == gdt_build /\ UNCHANGED <<prVars, pciVars, buildVars, lpVars, pgVars, elfVars, mtVars, stVars, chVars>>

SpecGdt == GdtInit /\ [][GdtNext]_vars

PagingInit ==
    PgStart /\ Build({FALSE}, BOOLEAN, {64}) /\ LoaderIdle /\ GdtIdle /\ ElfIdle
        /\ MtIdle /\ St1Idle /\ ChIdle
        /\ PrIdle /\ PciIdle

PagingNext ==
    \/ pg_set_present /\ UNCHANGED <<prVars, pciVars, buildVars, lpVars, gdtVars, elfVars, mtVars, stVars, chVars>>
    \/ pg_set_writable /\ UNCHANGED <<prVars, pciVars, buildVars, lpVars, gdtVars, elfVars, mtVars, stVars, chVars>>
    \/ pg_set_user_mode /\ UNCHANGED <<prVars, pciVars, buildVars, lpVars, gdtVars, elfVars, mtVars, stVars, chVars>>
    \/ pg_set_write_through_cache
          /\ UNCHANGED <<prVars, pciVars, buildVars, lpVars, gdtVars, elfVars, mtVars, stVars, chVars>>
    \/ pg_set_caching /\ UNCHANGED <<prVars, pciVars, buildVars, lpVars, gdtVars, elfVars, mtVars, stVars, chVars>>
    \/ pg_set_accessed /\ UNCHANGED <<prVars, pciVars, buildVars, lpVars, gdtVars, elfVars, mtVars, stVars, chVars>>
    \/ pg_set_executable /\ UNCHANGED <<prVars, pciVars, buildVars, lpVars, gdtVars, elfVars, mtVars, stVars, chVars>>
    \/ pg_set_address /\ UNCHANGED <<prVars, pciVars, buildVars, lpVars, gdtVars, elfVars, mtVars, stVars, chVars>>
    \/ pg_build /\ UNCHANGED <<prVars, pciVars, buildVars, lpVars, gdtVars, elfVars, mtVars, stVars, chVars>>

SpecPaging == PagingInit /\ [][PagingNext]_vars

\* frieren's arithmetic depends on overflow checks, the superseded
\* bootloader's checks on debug assertions.
ElfInit ==
    /\ ElfStart
    /\ IF elf_impl = "frieren" THEN Build(BOOLEAN, {FALSE}, {32, 64})
                               ELSE Build({FALSE}, BOOLEAN, {64})
    /\ LoaderIdle /\ GdtIdle /\ PgIdle /\ MtIdle /\ St1Idle /\ ChIdle
    /\ PrIdle /\ PciIdle

ElfNext ==
    \/ elf_try_from_raw /\ UNCHANGED <<prVars, pciVars, buildVars, lpVars, gdtVars, pgVars, mtVars, stVars, chVars>>
    \/ elf_section_table_range
          /\ UNCHANGED <<prVars, pciVars, buildVars, lpVars, gdtVars, pgVars, mtVars, stVars, chVars>>
    \/ elf_parse_from_sector
          /\ UNCHANGED <<prVars, pciVars, buildVars, lpVars, gdtVars, pgVars, mtVars, stVars, chVars>>

SpecElf == ElfInit /\ [][ElfNext]_vars

ModeInit ==
    MtStart /\ Build({FALSE}, {FALSE}, {64}) /\ LoaderIdle /\ GdtIdle /\ PgIdle
        /\ ElfIdle /\ St1Idle /\ ChIdle
        /\ PrIdle /\ PciIdle

ModeNext ==
    \/ mt_lgdt_reference /\ UNCHANGED <<prVars, pciVars, buildVars, lpVars, gdtVars, pgVars, elfVars, stVars, chVars>>
    \/ mt_lgdt_descriptor /\ UNCHANGED <<prVars, pciVars, buildVars, lpVars, gdtVars, pgVars, elfVars, stVars, chVars>>
    \/ mt_load_cr3 /\ UNCHANGED <<prVars, pciVars, buildVars, lpVars, gdtVars, pgVars, elfVars, stVars, chVars>>
    \/ mt_set_pae /\ UNCHANGED <<prVars, pciVars, buildVars, lpVars, gdtVars, pgVars, elfVars, stVars, chVars>>
    \/ mt_set_lme /\ UNCHANGED <<prVars, pciVars, buildVars, lpVars, gdtVars, pgVars, elfVars, stVars, chVars>>
    \/ mt_write_cr0 /\ UNCHANGED <<prVars, pciVars, buildVars, lpVars, gdtVars, pgVars, elfVars, stVars, chVars>>

SpecMode == ModeInit /\ [][ModeNext]_vars

Stage1Init ==
    St1Start /\ Build({FALSE}, BOOLEAN, {64}) /\ LoaderIdle /\ GdtIdle /\ PgIdle
        /\ ElfIdle /\ ChIdle
        /\ PrIdle /\ PciIdle

Stage1Next ==
    \/ build_gdt /\ UNCHANGED <<prVars, pciVars, buildVars, lpVars, gdtVars, pgVars, elfVars, chVars>>
    \/ build_page_tables
          /\ UNCHANGED <<prVars, pciVars, buildVars, lpVars, gdtVars, pgVars, elfVars, chVars>>
    \/ mt_lgdt_reference /\ UNCHANGED <<prVars, pciVars, buildVars, lpVars, gdtVars, pgVars, elfVars, stVars, chVars>>
    \/ mt_lgdt_descriptor /\ UNCHANGED <<prVars, pciVars, buildVars, lpVars, gdtVars, pgVars, elfVars, stVars, chVars>>
    \/ mt_load_cr3 /\ UNCHANGED <<prVars, pciVars, buildVars, lpVars, gdtVars, pgVars, elfVars, stVars, chVars>>
    \/ mt_set_pae /\ UNCHANGED <<prVars, pciVars, buildVars, lpVars, gdtVars, pgVars, elfVars, stVars, chVars>>
    \/ mt_set_lme /\ UNCHANGED <<prVars, pciVars, buildVars, lpVars, gdtVars, pgVars, elfVars, stVars, chVars>>
    \/ mt_write_cr0 /\ UNCHANGED <<prVars, pciVars, buildVars, lpVars, gdtVars, pgVars, elfVars, stVars, chVars>>
    \/ main_halt /\ UNCHANGED <<prVars, pciVars, buildVars, lpVars, gdtVars, pgVars, elfVars, chVars>>
    \/ main_return /\ UNCHANGED <<prVars, pciVars, buildVars, lpVars, gdtVars, pgVars, elfVars, chVars>>

SpecStage1 == Stage1Init /\ [][Stage1Next]_vars

ChainInit ==
    ChainStart /\ Build(BOOLEAN, {FALSE}, {64}) /\ GdtIdle /\ PgIdle /\ ElfIdle
        /\ PrIdle /\ PciIdle

ChainNext ==
    \/ asm_main /\ UNCHANGED <<prVars, pciVars, buildVars, gdtVars, pgVars, elfVars>>
    \/ read_sectors /\ UNCHANGED <<prVars, pciVars, buildVars, gdtVars, pgVars, elfVars, mtVars, stVars, chVars>>
    \/ bootstrapper_check /\ UNCHANGED <<prVars, pciVars, buildVars, gdtVars, pgVars, elfVars, mtVars, stVars, chVars>>
    \/ legacy_read /\ UNCHANGED <<prVars, pciVars, buildVars, gdtVars, pgVars, elfVars, mtVars, stVars, chVars>>
    \/ legacy_check /\ UNCHANGED <<prVars, pciVars, buildVars, gdtVars, pgVars, elfVars, mtVars, stVars, chVars>>
    \/ bootloader_calls_main /\ UNCHANGED <<prVars, pciVars, buildVars, gdtVars, pgVars, elfVars>>
    \/ build_gdt /\ UNCHANGED <<prVars, pciVars, buildVars, lpVars, gdtVars, pgVars, elfVars, chVars>>
    \/ build_page_tables
          /\ UNCHANGED <<prVars, pciVars, buildVars, lpVars, gdtVars, pgVars, elfVars, chVars>>
    \/ mt_lgdt_reference /\ UNCHANGED <<prVars, pciVars, buildVars, lpVars, gdtVars, pgVars, elfVars, stVars, chVars>>
    \/ mt_lgdt_descriptor /\ UNCHANGED <<prVars, pciVars, buildVars, lpVars, gdtVars, pgVars, elfVars, stVars, chVars>>
    \/ mt_load_cr3 /\ UNCHANGED <<prVars, pciVars, buildVars, lpVars, gdtVars, pgVars, elfVars, stVars, chVars>>
    \/ mt_set_pae /\ UNCHANGED <<prVars, pciVars, buildVars, lpVars, gdtVars, pgVars, elfVars, stVars, chVars>>
    \/ mt_set_lme /\ UNCHANGED <<prVars, pciVars, buildVars, lpVars, gdtVars, pgVars, elfVars, stVars, chVars>>
    \/ mt_write_cr0 /\ UNCHANGED <<prVars, pciVars, buildVars, lpVars, gdtVars, pgVars, elfVars, stVars, chVars>>
    \/ main_halt /\ UNCHANGED <<prVars, pciVars, buildVars, lpVars, gdtVars, pgVars, elfVars, chVars>>
    \/ main_return /\ UNCHANGED <<prVars, pciVars, buildVars, lpVars, gdtVars, pgVars, elfVars, chVars>>
    \/ main_returns_to_bootloader
          /\ UNCHANGED <<prVars, pciVars, buildVars, gdtVars, pgVars, elfVars>>

SpecChain == ChainInit /\ [][ChainNext]_vars

\* The chain from an entry into asm_main with any CR4.
EntryInit ==
    EntryStart /\ Build(BOOLEAN, {FALSE}, {64}) /\ GdtIdle /\ PgIdle /\ ElfIdle
        /\ PrIdle /\ PciIdle

SpecEntry == EntryInit /\ [][ChainNext]_vars

\* The CPU keeps executing: whatever step is possible is eventually taken.
SpecChainLive == SpecChain /\ WF_vars(ChainNext)

PrinterInit ==
    PrStart /\ Build({FALSE}, {FALSE}, {64}) /\ LoaderIdle /\ GdtIdle /\ PgIdle
        /\ ElfIdle /\ MtIdle /\ St1Idle /\ ChIdle /\ PciIdle

PrinterNext ==
    pr_write_byte /\ UNCHANGED <<pciVars, buildVars, lpVars, gdtVars, pgVars, elfVars, mtVars, stVars, chVars>>

SpecPrinter == PrinterInit /\ [][PrinterNext]_vars

PciInit ==
    PciStart /\ Build({FALSE}, {FALSE}, {64}) /\ LoaderIdle /\ GdtIdle /\ PgIdle
        /\ ElfIdle /\ MtIdle /\ St1Idle /\ ChIdle /\ PrIdle

PciNext ==
    \/ PciDevice_new /\ UNCHANGED <<prVars, buildVars, lpVars, gdtVars, pgVars, elfVars, mtVars, stVars, chVars>>
    \/ PciDevice_read_back /\ UNCHANGED <<prVars, buildVars, lpVars, gdtVars, pgVars, elfVars, mtVars, stVars, chVars>>
    \/ handle_pci_bus_again /\ UNCHANGED <<prVars, buildVars, lpVars, gdtVars, pgVars, elfVars, mtVars, stVars, chVars>>

SpecPci == PciInit /\ [][PciNext]_vars

-----------------------------------------------------------------------------
(* Claims about the disk program loader.                                    *)

\* C1: when the N-th sector read is the first to show the sentinel, the
\* loader returns start_lba + N, the LBA after the last sector it read.
C1_ReturnsLbaAfterLastRead ==
    lp_pc = "done" => lp_ret = start_sector + Len(reads)

\* C2: the scan stops at the first sector that shows the sentinel in its
\* bytes 508..511 at the destination it was loaded to: a sector that shows
\* it is the last one read, and the scan ends on no other sector.
C2_StopsAtFirstSentinel ==
    /\ \A k \in 1..Len(inspected) : inspected[k].shown => k = Len(reads)
    /\ lp_pc = "done" =>
          /\ Len(inspected) = Len(reads)
          /\ inspected[Len(inspected)].shown
          /\ \A k \in 1..Len(reads) :
                reads[k].dap.lba <= reads[Len(reads)].dap.lba

\* A run of the live loader that passed over four sectors and stopped at the
\* fifth.
C2_Witness ==
    /\ lp_impl = "bootstrapper"
    /\ lp_pc = "done"
    /\ Len(reads) = 5
    /\ \A k \in 1..4 : ~inspected[k].shown


-----------------------------------------------------------------------------
(* Claims about the GDT builder.                                            *)

\* The valid inputs of SegmentDescriptorBuilder::build.
GdtValid(d) ==
    /\ d.limit <= U20_MAX
    /\ ~(d.flags.long /\ d.flags.protected)
    /\ d.access.privilege <= 3

\* C5: on valid inputs the 8 bytes built determine base, limit, flags and
\* access: no other valid input with a different limit or different flags
\* builds the same descriptor.
C5_BuildInjective ==
    (gdt_pc = "built" /\ GdtValid(gdt_in)) =>
        \A l \in GdtLimits, f \in GdtFlags :
            LET other == [gdt_in EXCEPT !.limit = l, !.flags = f]
            IN  (GdtValid(other)
                   /\ SegmentDescriptorBuilder_build(other) = gdt_out)
                    => other = gdt_in

\* C6: build aborts exactly when the limit exceeds 2^20 - 1, or the flags ask
\* for long and protected mode together, or the privilege exceeds 3; in every
\* other case it returns 8 bytes.
C6_AbortsExactlyOnInvalid ==
    gdt_pc = "built" =>
        /\ Aborted(gdt_out) <=> ~GdtValid(gdt_in)
        /\ ~Aborted(gdt_out) =>
              /\ Len(gdt_out.val) = 8
              /\ \A i \in 1..8 : gdt_out.val[i] \in 0..255

\* build ran on a descriptor whose only fault is asking for long and
\* protected mode together, and aborted.
C6_Witness ==
    /\ gdt_pc = "built"
    /\ gdt_in.flags.long /\ gdt_in.flags.protected
    /\ gdt_in.limit <= U20_MAX
    /\ gdt_in.access.privilege <= 3
    /\ Aborted(gdt_out)

-----------------------------------------------------------------------------
(* Claims about page-table entries.                                         *)

\* C7: at every level, giving an entry an address that is not a multiple of
\* 4096 aborts, and giving it a multiple of 4096 produces the entry with that
\* address in it.
C7_MisalignedAddressAborts ==
    pg_last.op \in {"set_address", "build"} =>
        /\ Misaligned(pg_last.address) => pg_pc = "panic"
        /\ (~Misaligned(pg_last.address) /\ pg_last.op = "set_address") =>
              pg_pc # "panic"
        /\ (~Misaligned(pg_last.address) /\ pg_pc # "panic") =>
              pg_last.address \subseteq pg_entry

-----------------------------------------------------------------------------
(* Claims about ELF validation.                                             *)

\* C8: a header with the right magic bytes and 32-bit bitness is rejected
\* with ElfError::Bitness32, whatever its later fields hold.
C8_Bitness32Rejected ==
    (elf_impl = "frieren" /\ elf_pc # "input"
        /\ elf_header.magic_bytes = ElfMagic
        /\ elf_header.bitness = BitnessX32) =>
            elf_result = Err("Bitness32")

\* A 32-bit header that would also fail the endianness, version, ABI and
\* size checks, rejected for its bitness.
C8_Witness ==
    /\ elf_impl = "frieren"
    /\ elf_pc = "validated"
    /\ elf_header.magic_bytes = ElfMagic
    /\ elf_header.bitness = BitnessX32
    /\ elf_header.endianess = EndianessBig
    /\ elf_header.elf_version = 2
    /\ elf_header.abi = ABILinux
    /\ elf_header.size = 64
    /\ elf_result.err = "Bitness32"

\* The header fields every check of the validator accepts.
ElfHeaderPasses(h) ==
    /\ h.magic_bytes = ElfMagic
    /\ h.bitness = BitnessX64
    /\ h.endianess = EndianessNATIVE
    /\ h.header_version = 1 /\ h.elf_version = 1
    /\ h.abi = ABISystemV
    /\ h.section_header_size = SizeOfSectionHeader
    /\ h.program_header_size = SizeOfProgramHeader
    /\ h.size = SizeOfFileHeader

\* The exact end of a table of n entries of the given size starting at off,
\* as a five-limb number.
ExactTableEnd(off, n, size) == U64Sum(off, U64Of(n * size))

C10_OnlyDynValidated ==
    (elf_pc # "input" /\ elf_result.ok) =>
        elf_header.object_type = ObjectTypeDyn

\* The error of the earliest failing check in the documented order: magic
\* bytes, bitness, endianness, versions, ABI, object type, file header size,
\* program header size, section header size; "" when every check passes.
EarliestDocumentedFailure(h) ==
    IF h.magic_bytes # ElfMagic THEN "NoMagicBytes"
    ELSE IF h.bitness # BitnessX64 THEN "Bitness32"
    ELSE IF h.endianess # EndianessNATIVE THEN "BadEndianness"
    ELSE IF h.elf_version # 1 \/ h.header_version # 1 THEN "BadVersion"
    ELSE IF h.abi # ABISystemV THEN "BadABI"
    ELSE IF h.object_type # ObjectTypeDyn THEN "BadObjectType"
    ELSE IF h.size # SizeOfFileHeader THEN "BadHeaderSize(File)"
    ELSE IF h.program_header_size # SizeOfProgramHeader
      THEN "BadHeaderSize(Program)"
    ELSE IF h.section_header_size # SizeOfSectionHeader
      THEN "BadHeaderSize(Section)"
    ELSE ""

\* C11: validation returns the error of the earliest failing check in the
\* order magic bytes, bitness, endianness, versions, ABI, object type, file
\* header size, program header size, section header size, each check having
\* an error value of its own.
C11_EarliestFailureReported ==
    (elf_impl = "frieren" /\ elf_pc # "input") =>
        /\ elf_result.ok <=> EarliestDocumentedFailure(elf_header) = ""
        /\ elf_result.err = EarliestDocumentedFailure(elf_header)

-----------------------------------------------------------------------------
(* Claims about the transition to long mode.                                *)

\* The selector of GDT entry 1, the long-mode executable descriptor.
CodeSelector == 1 * 8

\* C3: once the sequence has run to its end, CR0.PE, CR0.PG, CR4.PAE and
\* EFER.LME are set, CR3 holds the page map level 4 address, and CS selects
\* the long-mode executable descriptor of the GDT that GDTR points at.
C3_LongModeStateAtEnd ==
    mt_pc = "done" =>
        /\ CR0_PE \in cr0
        /\ CR0_PG \in cr0
        /\ CR4_PAE \in cr4
        /\ EFER_LME \in efer
        /\ cr3 = pml4_address
        /\ gdtr = [limit |-> gdt_descriptor.size,
                   base |-> <<gdt_descriptor.offset[1], gdt_descriptor.offset[2]>>]
        /\ cs = CodeSelector

\* C4: the sequence performs its eight steps once each, in this order.
C4_EightStepsInOrder ==
    mt_pc = "done" =>
        mt_steps = <<"mask PIC", "load IDT", "set PAE", "load CR3", "set LME",
                     "write CR0 PE|PG", "load GDT", "long jump">>

-----------------------------------------------------------------------------
(* Claims about the tables Stage 1 builds.                                  *)

\* A segment descriptor as the CPU reads its 8 bytes: limit 15:0 in bytes
\* 0-1, base 23:0 in bytes 2-4, the access byte in byte 5, limit 19:16 and
\* the flags in byte 6, base 31:24 in byte 7.
DescriptorRead(e) ==
    [limit |-> e[1] + 256 * e[2] + 65536 * (e[7] % 16),
     base |-> <<e[3] + 256 * e[4], e[5] + 256 * e[8]>>,
     present |-> 7 \in ByteBits(e[6]),
     privilege |-> (e[6] \div 32) % 4,
     executable |-> 3 \in ByteBits(e[6]),
     read_write |-> 1 \in ByteBits(e[6]),
     paged_limit |-> 7 \in ByteBits(e[7]),
     long |-> 5 \in ByteBits(e[7])]

\* C12: build_gdt produces 3 eight-byte entries: a null descriptor, an
\* executable one and a read-write non-executable one, both present, of
\* privilege 0, base 0, limit 2^20 - 1, page granularity and long mode; the
\* handle has size 23 and the address of entry 0 as its base.
C12_BuildGdtTable ==
    st_pc \in {"build_page_tables", "transition", "halted", "returned"} =>
        /\ Len(gdt) = 3
        /\ \A i \in 1..3 : Len(gdt[i]) = 8
        /\ gdt[1] = <<0, 0, 0, 0, 0, 0, 0, 0>>
        /\ \A i \in {2, 3} :
              LET d == DescriptorRead(gdt[i])
              IN  /\ d.present
                  /\ d.privilege = 0
                  /\ d.base = <<0, 0>>
                  /\ d.limit = U20_MAX
                  /\ d.paged_limit
                  /\ d.long
        /\ DescriptorRead(gdt[2]).executable
        /\ ~DescriptorRead(gdt[3]).executable
        /\ DescriptorRead(gdt[3]).read_write
        /\ gdt_descriptor.size = 3 * 8 - 1
        /\ gdt_descriptor.offset = U64Of(AddressOf("build_gdt::gdt"))

\* What the walk of an address with no translation gives.
PageFault == {-1}

\* The variable stored at an address, "none" where there is none.
VariableAt(a) ==
    IF \E v \in Variables : NatBits(AddressOf(v), 0) = a
      THEN CHOOSE v \in Variables : NatBits(AddressOf(v), 0) = a
      ELSE "none"

\* The index a virtual address selects in the table of a level (4 = page map
\* level 4 .. 1 = page table): 9 bits starting at bit 12 + 9 * (level - 1).
TableIndex(va, level) ==
    LET lo == 12 + 9 * (level - 1)
        bit(k) == IF lo + k \in va THEN 2^k ELSE 0
    IN  bit(0) + bit(1) + bit(2) + bit(3) + bit(4) + bit(5) + bit(6) + bit(7)
            + bit(8)

\* The 4-level walk of a virtual address, from the table in variable v at
\* the given level, through the tables as build_page_tables wrote them.  An
\* entry with bit 7 set at level 3 or 2 maps a 1 GiB or 2 MiB page.
RECURSIVE PageWalk(_, _, _)
PageWalk(v, level, va) ==
    LET lo == 12 + 9 * (level - 1)
        en == page_maps[v][TableIndex(va, level)]
        next == VariableAt(en \cap (12..51))
    IN  IF 0 \notin en THEN PageFault
        ELSE IF level = 1 \/ (level \in {2, 3} /\ 7 \in en)
          THEN (en \cap (lo..51)) \cup (va \cap (0..(lo - 1)))
        ELSE IF next \notin DOMAIN page_maps THEN PageFault
        ELSE PageWalk(next, level - 1, va)

\* The translation of a virtual address below 2^48 by the tables built.
Translate(va) == PageWalk("main::page_map_level_4", 4, va)

\* The variable holding the table whose entries map the pages, its level,
\* and the bits every one of its entries has besides the address.
MappingTable ==
    IF mt_impl = "enable_64_bit_mode"
      THEN [v |-> "build_page_tables::page_directory_pointer_table",
            level |-> 3, flags |-> {0, 1, 7}]
      ELSE [v |-> "build_page_tables::page_table", level |-> 1,
            flags |-> {0, 1}]

\* Virtual addresses: 0, 0x1234, 0x1FFFFF, 0x200000, 0x40000000 + 8,
\* 2^39 - 4096, 2^39.
SampledAddresses ==
    {{}, {2, 4, 5, 9, 12}, 0..20, {21}, {3, 30}, 12..38, {39}}

\* Every entry of the mapping table is present, writable, executable and
\* holds i x the size one entry maps; the tables above it have entry 0 only.
MappingEntriesIdentity ==
    LET m == MappingTable
        shift == 12 + 9 * (m.level - 1)
    IN  /\ \A i \in 0..511 :
              page_maps[m.v][i] = m.flags \cup NatBits(i, shift)
        /\ \A v \in DOMAIN page_maps \ {m.v} :
              /\ 0 \in page_maps[v][0]
              /\ 1 \in page_maps[v][0]
              /\ 63 \notin page_maps[v][0]
              /\ \A i \in 1..511 : page_maps[v][i] = {}

\* C13 as stated: the tables identity-map at least 0.5 TB: every address
\* below 2^39 translates to itself.
C13_IdentityMapHalfTerabyte ==
    st_pc \in {"transition", "halted", "returned"} =>
        /\ MappingEntriesIdentity
        /\ \A va \in SampledAddresses :
              39 \notin va => Translate(va) = va

\* C13 amended: the tables, as build_page_tables wrote them, identity-map
\* 512 x the size one entry maps: 0.5 TB (512 x 1 GiB) in src/bootloader and
\* 2 MiB (512 x 4 KiB) in src/boot/bootloader; every address below that
\* translates to itself and every address from there on faults.
C13_IdentityMapBuiltSpan ==
    st_pc \in {"transition", "halted", "returned"} =>
        LET span == 12 + 9 * MappingTable.level
        IN  /\ MappingEntriesIdentity
            /\ span = IF mt_impl = "enable_64_bit_mode" THEN 39 ELSE 21
            /\ \A va \in SampledAddresses :
                  IF va \cap (span..63) = {} THEN Translate(va) = va
                  ELSE Translate(va) = PageFault

\* The tables of src/boot/bootloader are built and 0x1FFFFF, the last byte
\* of the 2 MiB, translates to itself.
C13_Witness ==
    /\ mt_impl = "main"
    /\ st_pc = "transition"
    /\ Translate(0..20) = 0..20
    /\ Translate({21}) = PageFault

-----------------------------------------------------------------------------
(* Claims about the chain of stages.                                        *)

\* C14: control only moves forward: the stages are entered in the order
\* Stage 0, Stage 1, Stage 2, no stage is entered again, and Stage 1's entry
\* function never returns to its caller.
C14_ControlMovesForward ==
    /\ \A i \in 1..Len(entered) :
          entered[i] = <<"Stage 0", "Stage 1", "Stage 2">>[i]
    /\ st_pc # "returned"

\* C15: once Stage 0 has entered Stage 1, Stage 2 is eventually entered.
C15_ReachesStage2 == (stage = "Stage 1") ~> (stage = "Stage 2")

\* C16: Stage 0 enters Stage 1 at the address loading started at, and passes
\* it the boot disk id of the BIOS and the end LBA the loader returned.
C16_HandoffArguments ==
    stage = "Stage 1" =>
        /\ handoff.target = LoadBase(lp_impl)
        /\ handoff.args = <<boot_disk, lp_ret>>

\* The address, as a u64, is that of a variable that is still in scope.
InScope(words) == \E v \in live : U64Of(AddressOf(v)) = words

\* C17: from the load of GDTR on, the base in GDTR and the base stored in the
\* descriptor-table handle are addresses of storage still in scope, and from
\* the load of CR3 on so are the address in CR3 and the next-level table
\* address of every present entry of the higher-level tables: none is the
\* storage of a local variable of a function that has returned.
C17_NoDanglingTableAddress ==
    /\ (\E i \in DOMAIN mt_steps : mt_steps[i] = "load GDT") =>
          /\ InScope(<<gdtr.base[1], gdtr.base[2], 0, 0>>)
          /\ InScope(gdt_descriptor.offset)
    /\ (\E i \in DOMAIN mt_steps : mt_steps[i] = "load CR3") =>
          /\ InScope(U64Of(cr3))
          /\ \A v \in DOMAIN page_maps \ {MappingTable.v} :
                \A i \in 0..511 :
                    0 \in page_maps[v][i] =>
                        VariableAt(page_maps[v][i] \cap (12..51)) \in live
\* C18: each BIOS read of a stage load has a higher LBA and a higher 16-bit
\* destination offset than the one before it, so the offset never wrapped
\* modulo 2^16 and no sector is written below an earlier one; and the sector
\* counter handed to the next stage is the counter itself, not a wrapped
\* narrowing of it.
C18_AddressStrictlyIncreases ==
    /\ \A k \in 1..(Len(reads) - 1) :
          /\ reads[k].dap.lba < reads[k + 1].dap.lba
          /\ reads[k].dap.offset < reads[k + 1].dap.offset
    /\ lp_pc = "done" => lp_ret >= start_sector
\* C19: the k-th BIOS read of the loader (k = 0, 1, ...) asks for one sector,
\* LBA start + k, at destination base + 512 x k, with a packet of size 16 and
\* reserved 0, so no LBA is asked for twice; and read_sectors, as
\* load_program of src/boot/bootstrapper calls it, reads from the disk the
\* BIOS booted from, whose id was handed to bootloader.
C19_SequentialReadsFromBootDisk ==
    \A k \in 1..Len(reads) :
        /\ reads[k].dap =
              DiskAddressPacket(start_sector + (k - 1),
                                LoadBase(lp_impl) + SectorSize * (k - 1))
        /\ lp_impl = "bootstrapper" => reads[k].drive = boot_disk
\* C20: paging is enabled only with the long-mode prerequisites in place:
\* whenever CR0.PG is set, CR4.PAE and EFER.LME are set and CR3 holds the
\* address of the page map level 4.  (PG is clear on entry and nothing
\* clears PAE, LME or CR3, so this is the state the CR0 write executed in.)
C20_PrerequisitesAtPagingEnable ==
    CR0_PG \in cr0 =>
        /\ CR4_PAE \in cr4
        /\ EFER_LME \in efer
        /\ cr3 = pml4_address
\* A step that writes CR4 changes bit 5 alone, and one that writes EFER
\* changes bit 8 alone.
CR4AndEFERFrame ==
    /\ cr4' # cr4 => (CR4_PAE \notin cr4 /\ cr4' = cr4 \cup {CR4_PAE})
    /\ efer' # efer => (EFER_LME \notin efer /\ efer' = efer \cup {EFER_LME})

\* C21 as stated: every step that changes CR4, EFER or CR0 changes only
\* the bits named: bit 5 of CR4, bit 8 of EFER, and bits 0 and 31 of CR0 in
\* one write.
C21_OnlyNamedBitsChange ==
    [][/\ CR4AndEFERFrame
       /\ cr0' # cr0 => cr0' = cr0 \cup {CR0_PE, CR0_PG}]_vars

\* C21 amended: every step that changes CR4, EFER or CR0 is an OR into the
\* prior value: bit 5 of CR4, bit 8 of EFER, and for CR0, in one write, bits
\* 0 and 31 in enable_64_bit_mode and bits 0, 16 and 31 in main; every
\* other bit keeps its value.
C21_OnlyOredBitsChange ==
    [][/\ CR4AndEFERFrame
       /\ cr0' # cr0 =>
             /\ cr0' = cr0 \cup (IF mt_impl = "main"
                                   THEN {CR0_PE, CR0_WP, CR0_PG}
                                   ELSE {CR0_PE, CR0_PG})
             /\ mt_steps' = Append(mt_steps, "write CR0 PE|PG")]_vars

\* main has written CR0: bit 4, set before, is still set, bit 16, clear
\* before, is now set, and EFER kept its bits 0 and 11.
C21_Witness ==
    /\ mt_impl = "main"
    /\ \E i \in DOMAIN mt_steps : mt_steps[i] = "write CR0 PE|PG"
    /\ cr0 = {CR0_PE, 4, CR0_WP, CR0_PG}
    /\ efer = {0, EFER_LME, 11}
\* The destination of the program's sentinel sector, its len-th, is below
\* 2^16: the offset does not overflow before that sector is reached.
SentinelSectorFits ==
    LoadBase(lp_impl) + SectorSize * (prog_len - 1) < U16

\* A sector ending with the sentinel was read and memory did not show the
\* sentinel at its destination afterwards: the BIOS read failed.
FailedSentinelRead ==
    \E k \in DOMAIN inspected :
        /\ DiskEndsWithSentinel(start_sector, prog_len, reads[k].dap.lba)
        /\ ~inspected[k].shown

\* C22: when the sentinel sector is reached without an overflow of the
\* destination offset, load_program terminates, unless the BIOS failed to
\* read that sector; and it returns only after memory showed the sentinel,
\* so that it never returns when memory never does.
C22_TerminatesOnSentinel ==
    /\ (lp_pc = "read" /\ reads = <<>> /\ SentinelSectorFits)
           ~> (lp_pc = "done" \/ FailedSentinelRead)
    /\ [](lp_pc = "done" => inspected[Len(inspected)].sig)
\* The access fields with a privilege of 0..3, and the byte build gives each.
AccessFields == {a \in GdtAccess : a.privilege <= 3}
AccessByteOf == [a \in AccessFields |-> SegmentAccessBuilder_build(a).val]

\* The field combinations build maps to each byte value.
AccessFieldsOf == [v \in 0..255 |-> {a \in AccessFields : AccessByteOf[a] = v}]

\* The byte VPPS_EDRA of a set of access fields.
VPPS_EDRA(a) ==
    LET bit(flag, value) == IF flag THEN value ELSE 0
    IN  bit(a.present, 128) + 32 * a.privilege + bit(a.non_system, 16)
            + bit(a.executable, 8) + bit(a.direction_conforming, 4)
            + bit(a.read_write, 2) + bit(a.accessed, 1)

\* C23: for access fields with privilege 0..3, SegmentAccessBuilder::build
\* returns the byte VPPS_EDRA (present at bit 7, privilege at bits 6-5,
\* non-system at 4, executable at 3, direction/conforming at 2, read-write
\* at 1, accessed at 0), which is the access byte of the descriptor built;
\* no other field combination gives the same byte, and the bytes of all
\* combinations are the 256 values of a byte.
C23_AccessByteLayout ==
    (gdt_pc = "built" /\ gdt_in.access \in AccessFields) =>
        LET a == gdt_in.access
            r == SegmentAccessBuilder_build(a)
        IN  /\ ~Aborted(r)
            /\ r.val = VPPS_EDRA(a)
            /\ ~Aborted(gdt_out) => gdt_out.val[3] = VPPS_EDRA(a)
            /\ AccessFieldsOf[r.val] = {a}
            /\ \A v \in 0..255 : AccessFieldsOf[v] # {}

\* A descriptor was built from access fields present, privilege 2,
\* executable and accessed only: its access byte is 0b1100_1001.
C23_Witness ==
    /\ gdt_pc = "built"
    /\ ~Aborted(gdt_out)
    /\ gdt_in.access = [present |-> TRUE, privilege |-> 2,
                        non_system |-> FALSE, executable |-> TRUE,
                        direction_conforming |-> FALSE,
                        read_write |-> FALSE, accessed |-> TRUE]
    /\ gdt_out.val[3] = 201
\* The bit each plain setter is documented to control.
SetterBit ==
    [set_present |-> 0, set_writable |-> 1, set_user_mode |-> 2,
     set_write_through_cache |-> 3, set_accessed |-> 5]

\* The setter named op applied to entry e with argument b.
ApplySetter(op, e, b) ==
    CASE op = "set_present" -> set_present(e, b)
      [] op = "set_writable" -> set_writable(e, b)
      [] op = "set_user_mode" -> set_user_mode(e, b)
      [] op = "set_write_through_cache" -> set_write_through_cache(e, b)
      [] op = "set_accessed" -> set_accessed(e, b)

\* C24: after set_present, set_writable, set_user_mode,
\* set_write_through_cache or set_accessed was called with b, the setter's
\* bit (0, 1, 2, 3, 5) equals b, every other bit is as it was before the
\* call, and the same call once more leaves the entry as it is.
C24_SetterSetsItsBit ==
    (pg_pc = "ready" /\ pg_last.op \in DOMAIN SetterBit) =>
        LET pos == SetterBit[pg_last.op]
        IN  /\ (pos \in pg_entry) <=> pg_last.flag
            /\ pg_entry \ {pos} = pg_last.before \ {pos}
            /\ ApplySetter(pg_last.op, pg_entry, pg_last.flag) = pg_entry

\* C25: after set_caching(c) the cache-disable bit 4 equals not c and after
\* set_executable(e) the execute-disable bit 63 equals not e, in every
\* state; so on a fresh entry set_caching(true) and set_executable(true)
\* leave the all-zero entry, the documented default, as it is.
C25_InvertedFlagsMatchDefaults ==
    pg_pc = "ready" =>
        /\ pg_last.op = "set_caching" => ((4 \in pg_entry) <=> ~pg_last.flag)
        /\ pg_last.op = "set_executable" =>
                ((63 \in pg_entry) <=> ~pg_last.flag)
        /\ (pg_last.op \in {"set_caching", "set_executable"}
                /\ pg_last.before = {} /\ pg_last.flag) => pg_entry = {}
\* A header as an ELF64 toolchain emits it: identification and versions
\* valid, and the three sizes those of the ELF64 records.
ToolchainHeader(h) ==
    /\ h.magic_bytes = ElfMagic
    /\ h.bitness = BitnessX64
    /\ h.endianess = EndianessLittle
    /\ h.header_version = 1
    /\ h.elf_version = 1
    /\ h.abi = ABISystemV
    /\ h.size = 64
    /\ h.program_header_size = 56
    /\ h.section_header_size = 64

\* C26: the compiled-in records have the ELF64 layout: FileHeader is 64
\* bytes with entry_point at offset 24, program_table_offset at 32,
\* section_table_offset at 40 and size at 52, ProgramHeader is 56 bytes and
\* SectionHeader 64; and try_from_raw, given a header with the ELF64 sizes,
\* reports no BadHeaderSize.
C26_Elf64Layout ==
    (elf_impl = "frieren" /\ elf_pc = "validated") =>
        /\ PackedSize(FileHeaderFields) = 64
        /\ PackedOffset(FileHeaderFields, "entry_point") = 24
        /\ PackedOffset(FileHeaderFields, "program_table_offset") = 32
        /\ PackedOffset(FileHeaderFields, "section_table_offset") = 40
        /\ PackedOffset(FileHeaderFields, "size") = 52
        /\ PackedSize(ProgramHeaderFields) = 56
        /\ PackedSize(SectionHeaderFields) = 64
        /\ ToolchainHeader(elf_header) => elf_result.ok
BootSectorBase == 31744

\* C28: when the stage, sentinel sector included, ends at or below 2^16,
\* none of its sectors is written over the bootstrapper's own sector
\* 0x7C00..0x7DFF, nor below the initial stack pointer, where the stack is.
C28_LoadAvoidsBootSectorAndStack ==
    LoadBase(lp_impl) + SectorSize * prog_len <= U16 =>
        \A k \in 1..Len(reads) :
            k <= prog_len =>
                LET lo == reads[k].dap.offset
                IN  /\ lo + SectorSize <= BootSectorBase
                         \/ lo >= BootSectorBase + SectorSize
                    /\ lo >= StackTop(lp_impl)
-----------------------------------------------------------------------------
(* Claims about the console Printer.                                        *)

\* The screen as the call's match leaves it, before any scrolling: the
\* screen before the call with the ordinary byte stored in the cell written.
ScreenBeforeScroll ==
    IF pr_last'.cell + 1 \in DOMAIN pr_buffer
    THEN [pr_buffer EXCEPT ![pr_last'.cell + 1] = pr_last'.byte + 256 * 15]
    ELSE pr_buffer

\* C29: on return from every write_byte call idx < 25 x 80 = 2000 and the
\* cell the call wrote, if any, has an index below 2000.  A call that would
\* move idx to 2000 or beyond scrolls the screen by exactly one row (each row
\* r < 24 holds what row r + 1 held, row 24 is blank) and leaves idx = 1920;
\* any other call leaves the rows where they are.
C29_PrinterStaysOnScreen ==
    [][pr_calls' = pr_calls + 1 =>
        LET old == ScreenBeforeScroll
        IN  /\ pr_idx' < 2000
            /\ pr_last'.cell < 2000
            /\ pr_last'.moved >= 2000 =>
                  /\ pr_idx' = 1920
                  /\ \A r \in 0..23 : \A c \in 0..79 :
                        pr_buffer'[r * 80 + c + 1] = old[(r + 1) * 80 + c + 1]
                  /\ \A c \in 0..79 : pr_buffer'[24 * 80 + c + 1] = 0
            /\ pr_last'.moved < 2000 =>
                  /\ pr_idx' = pr_last'.moved
                  /\ pr_buffer' = old]_vars

\* An ordinary byte written to the last cell of the screen has scrolled the
\* screen: the byte is now the last cell of row 23 and idx is 1920.
C29_Witness ==
    /\ pr_pc = "run"
    /\ pr_last.byte = 65
    /\ pr_last.idx = 1999
    /\ pr_last.cell = 1999
    /\ pr_idx = 1920
    /\ pr_buffer[1919 + 1] = 65 + 256 * 15
    /\ pr_buffer[0 + 1] = 98 + 256 * 15

-----------------------------------------------------------------------------
(* Claims about PCI configuration addresses.                                *)

\* The bits of an address that select the physical device: bus (16..23) and
\* device (11..15).
PhysicalDevice(word) == word \cap (11..23)

\* C30: the address built from bus b, device d and function f reads back
\* bus() = b, device() = d and function() = f, and the device made again from
\* bus() and device() is the same physical device.
C30_AddressReadsBack ==
    /\ pci_pc \in {"read", "again"} => pci_out = pci_in
    /\ pci_pc = "again" => PhysicalDevice(pci_again) = PhysicalDevice(pci_address)

\* The second half alone: the device made again is the same physical device.
PciAgainSameDevice ==
    pci_pc = "again" => PhysicalDevice(pci_again) = PhysicalDevice(pci_address)

====
